---- MODULE Spec2Model ----
(***************************************************************************)
(* The KML upload pipeline of the dashboard: the FileUpload component      *)
(* (src/src/components/forms/file-upload.tsx) and the api-service          *)
(* functions it drives (requestPresignedUrl, uploadFileToS3,               *)
(* processKmlFile); then the api-service functions called on their own     *)
(* against the two API routes (src/src/app/api), and the analysis poller   *)
(* of the demo page (src/src/app/kml-analysis-demo/page.tsx).              *)
(*                                                                         *)
(* Spec follows the component as its buttons drive it, SpecHandlers the    *)
(* component with handleUpload also called while no file is selected,      *)
(* SpecCredentials a call of requestPresignedUrl through                   *)
(* POST /api/presigned-url, SpecTransfer a call of uploadFileToS3 with its *)
(* clock (SpecTransferFair with the clock going on), SpecRelay the route   *)
(* /api/upload-proxy and SpecPage the demo page.  They share one initial   *)
(* state; each leaves the variables of the others alone.                   *)
(*                                                                         *)
(* JavaScript strings that the code takes apart (file names, MIME types,   *)
(* URLs, keys) are sequences of one-character strings.  An optional value  *)
(* (T | null | undefined) is a sequence of length at most one.             *)
(***************************************************************************)
EXTENDS Integers, Sequences, FiniteSets, Bags, TLC

(***************************************************************************)
(* Bounds of the model.                                                    *)
(***************************************************************************)
\* handleUpload runs that may be suspended (awaiting a stage) at one time
MaxInFlight == 2

(***************************************************************************)
(* String helpers: the String.prototype methods the code calls.            *)
(***************************************************************************)
None == << >>
Some(x) == << x >>

\* String.prototype.toLowerCase on one character (the letters the inputs use)
LowerChar(c) ==
    CASE c = "K" -> "k"
      [] c = "M" -> "m"
      [] c = "L" -> "l"
      [] c = "Z" -> "z"
      [] c = "P" -> "p"
      [] c = "N" -> "n"
      [] c = "G" -> "g"
      [] OTHER -> c

toLowerCase(s) == [i \in 1..Len(s) |-> LowerChar(s[i])]

\* s.split(d) for a one-character separator d: never empty, "" gives [""]
RECURSIVE split(_, _)
split(s, d) ==
    IF \A i \in 1..Len(s) : s[i] # d
    THEN << s >>
    ELSE LET i == CHOOSE k \in 1..Len(s) :
                     s[k] = d /\ \A j \in 1..(k - 1) : s[j] # d
         IN  << SubSeq(s, 1, i - 1) >> \o split(SubSeq(s, i + 1, Len(s)), d)

\* the element Array.prototype.pop returns (arrays built by split are non-empty)
pop(a) == a[Len(a)]

\* s.endsWith(t)
endsWith(s, t) ==
    /\ Len(t) <= Len(s)
    /\ SubSeq(s, Len(s) - Len(t) + 1, Len(s)) = t

\* s.includes(t)
includes(s, t) ==
    \E i \in 1..(Len(s) - Len(t) + 1) : SubSeq(s, i, i + Len(t) - 1) = t

(***************************************************************************)
(* String constants of the code.                                           *)
(***************************************************************************)
DotKml == <<".", "k", "m", "l">>
DotKmz == <<".", "k", "m", "z">>
MimeKml == <<"a", "p", "p", "l", "i", "c", "a", "t", "i", "o", "n", "/", "v", "n", "d", ".", "g", "o", "o", "g", "l", "e", "-", "e", "a", "r", "t", "h", ".", "k", "m", "l">>
MimeKmz == <<"a", "p", "p", "l", "i", "c", "a", "t", "i", "o", "n", "/", "v", "n", "d", ".", "g", "o", "o", "g", "l", "e", "-", "e", "a", "r", "t", "h", ".", "k", "m", "z">>
KeyPrefix == <<"i", "n", "p", "u", "t", "_", "k", "m", "l", "_", "f", "i", "l", "e", "s", "/">>
UploadsPrefix == <<"k", "m", "l", "-", "u", "p", "l", "o", "a", "d", "s", "/">>

\* props of FileUpload (defaults, and the values the demo page passes)
maxFileSize == 50
acceptedTypes == {DotKml, DotKmz}
\* the ceiling requestPresignedUrl checks, in MB
PresignMaxMB == 50

MaxBytes == maxFileSize * 1024 * 1024

(***************************************************************************)
(* Files the user can offer (File objects: name, type, size).              *)
(***************************************************************************)
MimeKmlXml == MimeKml \o <<"+", "x", "m", "l">>
MimePng == <<"i", "m", "a", "g", "e", "/", "p", "n", "g">>

FKmz == [name |-> <<"b", ".", "K", "M", "Z">>,
            type |-> << >>, size |-> MaxBytes]
FNoDot == [name |-> <<"k", "m", "l">>,
            type |-> << >>, size |-> 1024]
FPng == [name |-> <<"m", "a", "p", ".", "p", "n", "g">>,
            type |-> MimePng, size |-> 4096]
FBig == [name |-> <<"b", "i", "g", ".", "k", "m", "l">>,
            type |-> MimeKmlXml, size |-> MaxBytes + 1]
FBigPng == [name |-> <<"m", "a", "p", ".", "p", "n", "g">>,
            type |-> MimePng, size |-> MaxBytes + 1]
FNotes == [name |-> <<"n", "o", "t", "e", "s">>,
            type |-> << >>, size |-> 10]
FTxt == [name |-> <<"a", ".", "k", "m", "l", ".", "t", "x", "t">>,
            type |-> << >>, size |-> 10]

Files == {FKmz, FNoDot, FPng, FBig, FBigPng, FNotes, FTxt}

(***************************************************************************)
(* Error messages: the template text, with the number and the inner        *)
(* message interpolated into it.                                           *)
(***************************************************************************)
Msg(text, num, inner) == [text |-> text, num |-> num, inner |-> inner]

TooLargeMsg == Msg("File size must be less than ${maxFileSize}MB", maxFileSize, "")
UnsupportedTypeMsg == Msg("Only ${acceptedTypes.join(', ')} files are allowed", 0, "")

(***************************************************************************)
(* validateFile: null (None) when the file is acceptable.                  *)
(***************************************************************************)
fileExtension(file) == <<".">> \o toLowerCase(pop(split(file.name, ".")))

\* validateFile with the size test written >= : a file of exactly the limit fails
validateFile_SizeAtLimitRejected(file) ==
    IF file.size >= maxFileSize * 1024 * 1024
    THEN Some(TooLargeMsg)
    ELSE IF fileExtension(file) \notin acceptedTypes
         THEN Some(UnsupportedTypeMsg)
         ELSE None

validateFile(file) ==
    IF file.size > maxFileSize * 1024 * 1024
    THEN Some(TooLargeMsg)
    ELSE IF fileExtension(file) \notin acceptedTypes
         THEN Some(UnsupportedTypeMsg)
         ELSE None

(***************************************************************************)
(* requestPresignedUrl: the checks made before the network call, the       *)
(* responses the credential endpoint can give, and the value returned.     *)
(***************************************************************************)
SizeLimitMsg == Msg("File size exceeds 50MB limit", 0, "")
OnlyKmlMsg == Msg("Only KML and KMZ files are allowed", 0, "")

\* the checks with the size test left to the caller
presignPrecheck_NoSizeCheck(fileName, fileType, fileSize) ==
    IF /\ ~includes(fileType, MimeKml)
       /\ ~includes(fileType, MimeKmz)
       /\ ~endsWith(toLowerCase(fileName), DotKml)
       /\ ~endsWith(toLowerCase(fileName), DotKmz)
    THEN Some(OnlyKmlMsg)
    ELSE None

\* None when the call goes on to fetch; otherwise the Error thrown before it
presignPrecheck(fileName, fileType, fileSize) ==
    IF fileSize > PresignMaxMB * 1024 * 1024
    THEN Some(SizeLimitMsg)
    ELSE IF /\ ~includes(fileType, MimeKml)
            /\ ~includes(fileType, MimeKmz)
            /\ ~endsWith(toLowerCase(fileName), DotKml)
            /\ ~endsWith(toLowerCase(fileName), DotKmz)
         THEN Some(OnlyKmlMsg)
         ELSE None

\* the body of the POST to /api/presigned-url
presignRequestBody(fileName) == [fileName |-> KeyPrefix \o fileName]

\* values of Date.now().toString()
Clock == {<<"1", "7">>}

UrlHost == <<"h", "t", "t", "p", "s", ":", "/", "/", "s", "3", "/">>
UrlQuery == <<"?", "s", "i", "g">>

\* an upstream "fields" object
UpstreamFields == ("key" :> <<"k">>)

\* What fetch('/api/presigned-url') can settle with for a request body:
\* a transport failure, a non-ok status, or an ok response with a JSON body.
PresignResponses(body) ==
    {[net |-> FALSE, ok |-> FALSE, status |-> 0,
      presignedUrl |-> None, fileKey |-> None, expiresIn |-> None, fields |-> None]}
    \cup
    {[net |-> TRUE, ok |-> FALSE, status |-> st,
      presignedUrl |-> None, fileKey |-> None, expiresIn |-> None, fields |-> None]
       : st \in {403, 500}}
    \cup
    {[net |-> TRUE, ok |-> TRUE, status |-> 200,
      presignedUrl |-> None, fileKey |-> Some(body.fileName),
      expiresIn |-> Some(3600), fields |-> None],
     [net |-> TRUE, ok |-> TRUE, status |-> 200,
      presignedUrl |-> Some(UrlHost \o body.fileName \o UrlQuery),
      fileKey |-> Some(body.fileName),
      expiresIn |-> Some(3600), fields |-> Some(UpstreamFields)],
     [net |-> TRUE, ok |-> TRUE, status |-> 200,
      presignedUrl |-> Some(UrlHost \o KeyPrefix),
      fileKey |-> None, expiresIn |-> None, fields |-> None]}

FetchFailedMsg == "Failed to fetch"
WrapMsg(num, inner) == Msg("Failed to request presigned URL: ${error.message}", num, inner)

\* a requestPresignedUrl that reports a missing presignedUrl as a failed fetch
presignError_MissingUrlAsFetchFailure(resp) ==
    IF ~resp.net
    THEN Some(WrapMsg(0, FetchFailedMsg))
    ELSE IF ~resp.ok
         THEN Some(WrapMsg(resp.status,
                   "Failed to get presigned URL: ${response.status} ${response.statusText}"))
         ELSE IF resp.presignedUrl \in {None, Some(<< >>)}
              THEN Some(WrapMsg(0, FetchFailedMsg))
              ELSE None

\* the Error the try/catch of requestPresignedUrl rethrows for a response
\* (None when it returns)
presignError(resp) ==
    IF ~resp.net
    THEN Some(WrapMsg(0, FetchFailedMsg))
    ELSE IF ~resp.ok
         THEN Some(WrapMsg(resp.status,
                   "Failed to get presigned URL: ${response.status} ${response.statusText}"))
         ELSE IF resp.presignedUrl \in {None, Some(<< >>)}
              THEN Some(WrapMsg(0, "Invalid response from server: missing presignedUrl"))
              ELSE None

\* the PresignedUrlResponse returned for an ok response with a presignedUrl
presignResult(resp, fileName, fileType, now) ==
    [presignedUrl |-> resp.presignedUrl[1],
     fileKey |-> IF resp.fileKey \notin {None, Some(<< >>)} THEN resp.fileKey[1]
                 ELSE UploadsPrefix \o now \o <<"-">> \o fileName,
     expiresIn |-> IF resp.expiresIn \notin {None, Some(0)}
                   THEN resp.expiresIn[1] ELSE 3600,
     fields |-> IF resp.fields # None THEN resp.fields[1]
                ELSE ("Content-Type" :> fileType)
                     @@ ("x-amz-meta-original-name" :> fileName)
                     @@ ("x-amz-meta-upload-timestamp" :> now)]

(***************************************************************************)
(* uploadFileToS3: progress computation, the outcome of the load event.    *)
(***************************************************************************)
RECURSIVE gcd(_, _)
gcd(a, b) == IF b = 0 THEN a ELSE gcd(b, a % b)

\* Math.round((loaded / total) * 100), total > 0, on the reduced fraction
roundPercent(loaded, total) ==
    LET g == gcd(loaded, total)
        l == loaded \div g
        t == total \div g
    IN  (200 * l + t) \div (2 * t)

xhrProgress(loaded, total) ==
    [loaded |-> loaded, total |-> total, percentage |-> roundPercent(loaded, total)]

\* byte counts the progress events of a transfer of `total` bytes report
ProgressPoints(total) == {3 * (total \div 8), total}

\* statuses the store answers the PUT with
XhrStatuses == {199, 200, 299, 300}

\* presignedUrl.split('/').pop()?.split('?')[0] || `input_kml_files/${Date.now()}-${file.name}`
extractFileKey(presignedUrl, file, now) ==
    LET k == split(pop(split(presignedUrl, "/")), "?")[1]
    IN  IF k # << >> THEN k ELSE KeyPrefix \o now \o <<"-">> \o file.name

UploadStatusMsg(st) == Msg("Upload failed with status: ${xhr.status}", st, "")
NetworkErrorMsg == Msg("Upload failed due to network error", 0, "")
TimeoutMsg == Msg("Upload timed out", 0, "")

(***************************************************************************)
(* processKmlFile: the analysis id it resolves with.                       *)
(***************************************************************************)
RandomSuffixes == {<<"r">>}
analysisIdOf(now, rnd) == <<"a", "n", "a", "l", "y", "s", "i", "s", "-">> \o now \o <<"-">> \o rnd

(***************************************************************************)
(* State of one mounted FileUpload instance.                               *)
(*   uploadStatus, selectedFile : the useState cells (isDragOver only      *)
(*              styles the card's border and is left out)                  *)
(*   attempts : the handleUpload runs that are suspended at an await, a    *)
(*              bag of records: the run's closure (file, presignedData,    *)
(*              fileKey), the stage it awaits, its XMLHttpRequest's last   *)
(*              progress, and what it has called so far                    *)
(*   lastOp   : the handler or continuation that ran last, the status it   *)
(*              found, and the callback prop it invoked, if any            *)
(***************************************************************************)
VARIABLES uploadStatus, selectedFile, attempts, lastOp

(***************************************************************************)
(* State of the api-service functions and of the two API routes when they  *)
(* are called on their own, and of the demo page that hosts the component. *)
(*   req      : one call of requestPresignedUrl, with the answer of        *)
(*              POST /api/presigned-url to its fetch                       *)
(*   xhr      : one call of uploadFileToS3: its XMLHttpRequest, the time   *)
(*              since send(), and the onProgress calls made so far         *)
(*   relay    : the last response of POST /api/upload-proxy                *)
(*   analysisResults, isProcessing : the useState cells of the demo page   *)
(*   pollers  : the timers handleUploadComplete has started, one record    *)
(*              per call                                                   *)
(*   mounted  : the demo page is mounted                                   *)
(***************************************************************************)
VARIABLES req, xhr, relay, analysisResults, isProcessing, pollers, mounted

componentVars == <<uploadStatus, selectedFile, attempts, lastOp>>
credentialVars == <<req>>
transferVars == <<xhr, relay>>
pageVars == <<analysisResults, isProcessing, pollers, mounted>>
\* what the component's handlers leave alone
otherVars == <<credentialVars, transferVars, pageVars>>

vars == <<uploadStatus, selectedFile, attempts, lastOp,
          req, xhr, relay, analysisResults, isProcessing, pollers, mounted>>

ZeroProgress == [loaded |-> 0, total |-> 0, percentage |-> 0]

IdleStatus == [status |-> "idle", progress |-> ZeroProgress,
               error |-> None, fileKey |-> None]

ErrorStatus(message) == [status |-> "error", progress |-> ZeroProgress,
                         error |-> Some(message), fileKey |-> None]

NoCallback == [kind |-> "none", fileKey |-> None, analysisId |-> None, message |-> None]
onUploadComplete(fileKey, analysisId) ==
    [kind |-> "complete", fileKey |-> Some(fileKey),
     analysisId |-> Some(analysisId), message |-> None]
onUploadError(message) ==
    [kind |-> "error", fileKey |-> None, analysisId |-> None, message |-> Some(message)]

\* the record of a step: its handler, the status before it, its callback
Op(handler, cb) == [handler |-> handler, from |-> uploadStatus.status, cb |-> cb]

Running == BagToSet(attempts)
Replace(run, newRun) == (attempts (-) SetToBag({run})) (+) SetToBag({newRun})
Remove(run) == attempts (-) SetToBag({run})

\* a continuation of handleUpload is queued as a microtask: it runs before
\* any further user or network event
MicrotaskPending == \E run \in Running : run.stage = "rejected"

\* no call of requestPresignedUrl has been made
NoRequest == [stage |-> "idle", fileName |-> << >>, fileType |-> << >>,
              fileSize |-> 0, fetches |-> 0, answer |-> None,
              thrown |-> None, result |-> None]

\* no call of uploadFileToS3 has been made
NoXhr == [stage |-> "unsent", file |-> None, presignedUrl |-> << >>,
          elapsed |-> 0, loaded |-> 0, calls |-> << >>,
          settled |-> 0, fileKey |-> None, reason |-> None]

ComponentIdle ==
    /\ uploadStatus = IdleStatus
    /\ selectedFile = None
    /\ attempts = EmptyBag
    /\ lastOp = [handler |-> "mount", from |-> "idle", cb |-> NoCallback]

ServicesIdle ==
    /\ req = NoRequest
    /\ xhr = NoXhr
    /\ relay = None

PageIdle ==
    /\ analysisResults = << >>
    /\ isProcessing = FALSE
    /\ pollers = << >>
    /\ mounted = TRUE

Init ==
    /\ ComponentIdle
    /\ ServicesIdle
    /\ PageIdle

(***************************************************************************)
(* handleFileSelect, and the two handlers that call it.                    *)
(***************************************************************************)
\* handleFileSelect that leaves uploadStatus alone when the file is valid
handleFileSelect_KeepsStatus(file, handler) ==
    LET validationError == validateFile(file) IN
    IF validationError # None
    THEN /\ uploadStatus' = ErrorStatus(validationError[1])
         /\ lastOp' = Op(handler, onUploadError(validationError[1]))
         /\ UNCHANGED selectedFile
    ELSE /\ selectedFile' = Some(file)
         /\ uploadStatus' = uploadStatus
         /\ lastOp' = Op(handler, NoCallback)

\* handleFileSelect without the return of the validation branch: the file
\* is selected and the status set to idle all the same
handleFileSelect_NoReturn(file, handler) ==
    LET validationError == validateFile(file) IN
    /\ selectedFile' = Some(file)
    /\ uploadStatus' = IdleStatus
    /\ lastOp' = Op(handler, IF validationError # None
                             THEN onUploadError(validationError[1])
                             ELSE NoCallback)

\* handleFileSelect that also drops the selection when validation fails
handleFileSelect_DropsSelection(file, handler) ==
    LET validationError == validateFile(file) IN
    IF validationError # None
    THEN /\ uploadStatus' = ErrorStatus(validationError[1])
         /\ lastOp' = Op(handler, onUploadError(validationError[1]))
         /\ selectedFile' = None
    ELSE /\ selectedFile' = Some(file)
         /\ uploadStatus' = IdleStatus
         /\ lastOp' = Op(handler, NoCallback)

handleFileSelect(file, handler) ==
    LET validationError == validateFile(file) IN
    IF validationError # None
    THEN /\ uploadStatus' = ErrorStatus(validationError[1])
         /\ lastOp' = Op(handler, onUploadError(validationError[1]))
         /\ UNCHANGED selectedFile
    ELSE /\ selectedFile' = Some(file)
         /\ uploadStatus' = IdleStatus
         /\ lastOp' = Op(handler, NoCallback)

\* the hidden input's onChange; the picker opens from the card or the
\* "Choose File" button, both offered only while no file is selected
HandleFileInputChange(file) ==
    /\ ~MicrotaskPending
    /\ selectedFile = None
    /\ handleFileSelect(file, "handleFileInputChange")
    /\ UNCHANGED attempts
    /\ UNCHANGED otherVars

\* onDrop of the card: offered in every state
HandleDrop(file) ==
    /\ ~MicrotaskPending
    /\ handleFileSelect(file, "handleDrop")
    /\ UNCHANGED attempts
    /\ UNCHANGED otherVars

(***************************************************************************)
(* clearFile: the X of the selected-file row (whenever a file is           *)
(* selected), "Upload Another" (success), "Try Again" (error).             *)
(***************************************************************************)
\* clearFile that resets the status but keeps the selected file
clearFile_KeepsFile ==
    /\ selectedFile' = selectedFile
    /\ uploadStatus' = IdleStatus
    /\ lastOp' = Op("clearFile", NoCallback)

clearFile ==
    /\ selectedFile' = None
    /\ uploadStatus' = IdleStatus
    /\ lastOp' = Op("clearFile", NoCallback)

ClearFile ==
    /\ ~MicrotaskPending
    /\ \/ selectedFile # None
       \/ uploadStatus.status \in {"success", "error"}
    /\ clearFile
    /\ UNCHANGED attempts
    /\ UNCHANGED otherVars

(***************************************************************************)
(* handleUpload.                                                           *)
(***************************************************************************)
NewAttempt(file, stage, fetches) ==
    [file |-> file, stage |-> stage, presignedData |-> None, fileKey |-> None,
     sent |-> 0 - 1, credentialCalls |-> 1, fetches |-> fetches,
     transferCalls |-> 0, processCalls |-> 0]

\* The run of handleUpload up to its first await: requestPresignedUrl has
\* either thrown (the catch block is queued) or issued its fetch.
handleUpload ==
    IF selectedFile = None
    THEN UNCHANGED <<uploadStatus, attempts>> /\ lastOp' = Op("handleUpload", NoCallback)
    ELSE LET file == selectedFile[1]
             thrown == presignPrecheck(file.name, file.type, file.size)
         IN  /\ attempts' = attempts (+) SetToBag({
                    IF thrown # None
                    THEN NewAttempt(file, "rejected", 0)
                    ELSE NewAttempt(file, "credentials", 1)})
             /\ uploadStatus' = [uploadStatus EXCEPT !.status = "uploading"]
             /\ lastOp' = Op("handleUpload", NoCallback)

\* the "Upload File" button: offered when a file is selected and the status
\* is idle
HandleUpload ==
    /\ ~MicrotaskPending
    /\ BagCardinality(attempts) < MaxInFlight
    /\ selectedFile # None
    /\ uploadStatus.status = "idle"
    /\ handleUpload
    /\ UNCHANGED selectedFile
    /\ UNCHANGED otherVars

\* a catch block that reports the fallback text instead of error.message
Catch_GenericMessage(run, message, handler) ==
    /\ uploadStatus' = ErrorStatus(Msg("Upload failed", 0, ""))
    /\ attempts' = Remove(run)
    /\ lastOp' = Op(handler, onUploadError(Msg("Upload failed", 0, "")))
    /\ UNCHANGED selectedFile

\* a catch block that sets the error state and calls nothing
Catch_NoCallback(run, message, handler) ==
    /\ uploadStatus' = ErrorStatus(message)
    /\ attempts' = Remove(run)
    /\ lastOp' = Op(handler, NoCallback)
    /\ UNCHANGED selectedFile

\* the catch block of handleUpload for a run, with the Error's message:
\* the run ends
Catch(run, message, handler) ==
    /\ uploadStatus' = ErrorStatus(message)
    /\ attempts' = Remove(run)
    /\ lastOp' = Op(handler, onUploadError(message))
    /\ UNCHANGED selectedFile

\* requestPresignedUrl threw before fetching
PresignRejected(run) ==
    /\ run \in Running
    /\ run.stage = "rejected"
    /\ Catch(run, presignPrecheck(run.file.name, run.file.type, run.file.size)[1],
             "requestPresignedUrl")
    /\ UNCHANGED otherVars

\* the fetch of requestPresignedUrl settles; on success uploadFileToS3 is
\* called and its XMLHttpRequest sent
PresignSettled(run, resp, now) ==
    /\ ~MicrotaskPending
    /\ run \in Running
    /\ run.stage = "credentials"
    /\ LET thrown == presignError(resp) IN
       IF thrown # None
       THEN Catch(run, thrown[1], "requestPresignedUrl")
       ELSE /\ attempts' = Replace(run,
                   [run EXCEPT !.stage = "transfer",
                               !.presignedData = Some(presignResult(
                                    resp, run.file.name, run.file.type, now)),
                               !.transferCalls = @ + 1])
            /\ lastOp' = Op("requestPresignedUrl", NoCallback)
            /\ UNCHANGED <<uploadStatus, selectedFile>>
    /\ UNCHANGED otherVars

\* a progress event of the run's XMLHttpRequest
XhrProgress(run, loaded, lengthComputable) ==
    /\ ~MicrotaskPending
    /\ run \in Running
    /\ run.stage = "transfer"
    /\ loaded >= run.sent
    /\ attempts' = Replace(run, [run EXCEPT !.sent = loaded])
    /\ uploadStatus' =
          IF lengthComputable
          THEN [uploadStatus EXCEPT !.progress = xhrProgress(loaded, run.file.size)]
          ELSE uploadStatus
    /\ lastOp' = Op("xhr.progress", NoCallback)
    /\ UNCHANGED selectedFile
    /\ UNCHANGED otherVars

\* the load event: resolve with the file key (handleUpload goes on to call
\* processKmlFile) or reject with the status
XhrLoad(run, status, now) ==
    /\ ~MicrotaskPending
    /\ run \in Running
    /\ run.stage = "transfer"
    /\ IF status >= 200 /\ status < 300
       THEN /\ attempts' = Replace(run,
                   [run EXCEPT !.stage = "processing",
                               !.fileKey = Some(extractFileKey(
                                    run.presignedData[1].presignedUrl, run.file, now)),
                               !.sent = 0 - 1,
                               !.processCalls = @ + 1])
            /\ lastOp' = Op("xhr.load", NoCallback)
            /\ UNCHANGED <<uploadStatus, selectedFile>>
       ELSE Catch(run, UploadStatusMsg(status), "xhr.load")
    /\ UNCHANGED otherVars

XhrError(run) ==
    /\ ~MicrotaskPending
    /\ run \in Running
    /\ run.stage = "transfer"
    /\ Catch(run, NetworkErrorMsg, "xhr.error")
    /\ UNCHANGED otherVars

XhrTimeout(run) ==
    /\ ~MicrotaskPending
    /\ run \in Running
    /\ run.stage = "transfer"
    /\ Catch(run, TimeoutMsg, "xhr.timeout")
    /\ UNCHANGED otherVars

\* the 2 s timer of processKmlFile fires: the rest of the try block
ProcessResolved(run, now, rnd) ==
    /\ ~MicrotaskPending
    /\ run \in Running
    /\ run.stage = "processing"
    /\ uploadStatus' = [uploadStatus EXCEPT !.status = "success",
                                            !.fileKey = run.fileKey]
    /\ attempts' = Remove(run)
    /\ lastOp' = Op("processKmlFile", onUploadComplete(run.fileKey[1], analysisIdOf(now, rnd)))
    /\ UNCHANGED selectedFile
    /\ UNCHANGED otherVars

Next ==
    \/ \E file \in Files : HandleFileInputChange(file)
    \/ \E file \in Files : HandleDrop(file)
    \/ ClearFile
    \/ HandleUpload
    \/ \E run \in Running : PresignRejected(run)
    \/ \E run \in Running : \E now \in Clock :
          \E resp \in PresignResponses(presignRequestBody(run.file.name)) :
             PresignSettled(run, resp, now)
    \/ \E run \in Running : \E lc \in BOOLEAN :
          \E loaded \in ProgressPoints(run.file.size) :
             XhrProgress(run, loaded, lc)
    \/ \E run \in Running : \E status \in XhrStatuses : \E now \in Clock :
          XhrLoad(run, status, now)
    \/ \E run \in Running : XhrError(run)
    \/ \E run \in Running : XhrTimeout(run)
    \/ \E run \in Running : \E now \in Clock : \E rnd \in RandomSuffixes :
          ProcessResolved(run, now, rnd)

Spec == Init /\ [][Next]_vars

(***************************************************************************)
(* The component with handleUpload also called while no file is selected,  *)
(* a call the rendered buttons never make (the "Upload File" button exists *)
(* only while a file is selected): the handler's first line.               *)
(***************************************************************************)
HandleUploadWithoutFile ==
    /\ ~MicrotaskPending
    /\ selectedFile = None
    /\ handleUpload
    /\ UNCHANGED selectedFile
    /\ UNCHANGED otherVars

NextHandlers ==
    \/ Next
    \/ HandleUploadWithoutFile

SpecHandlers == Init /\ [][NextHandlers]_vars

(***************************************************************************)
(* POST /api/presigned-url (src/src/app/api/presigned-url/route.ts): the   *)
(* response computed from the request body and from what the Lambda        *)
(* function answered.  A response is its status, its JSON body (error, or  *)
(* presignedUrl, fileKey, expiresIn, fields) and whether it carries the    *)
(* three Access-Control-Allow-* headers.                                   *)
(***************************************************************************)
RouteResponse(status, error, presignedUrl, fileKey, expiresIn, fields, cors) ==
    [status |-> status, error |-> error, presignedUrl |-> presignedUrl,
     fileKey |-> fileKey, expiresIn |-> expiresIn, fields |-> fields, cors |-> cors]

RouteError(status, message) ==
    RouteResponse(status, Some(message), None, None, None, None, FALSE)

FileNameRequiredMsg == Msg("fileName is required", 0, "")
LambdaStatusMsg(st) ==
    Msg("Lambda function returned ${response.status}: ${response.statusText}", st, "")
InternalErrorMsg == Msg("Internal server error", 0, "")

\* the mock URL of the fallback, its host and query string shortened
MockUrlHost == <<"h", "t", "t", "p", "s", ":", "/", "/", "m", "o", "c", "k", "/">>
MockUrlQuery == <<"?", "X", "-", "A", "m", "z", "-", "S", "i", "g", "n", "a", "t", "u", "r", "e", "=", "m", "o", "c", "k">>

\* What the fetch of the Lambda function URL can settle with: a transport
\* failure, a non-ok status, or an ok response, whose body is a JSON object
\* (json) or makes response.json() or the reads of its members throw.
LambdaStatuses == {403, 500}
LambdaResponses(fileName) ==
    {[net |-> FALSE, ok |-> FALSE, status |-> 0, json |-> FALSE,
      uploadUrl |-> None, fileKey |-> None, expiresIn |-> None, fields |-> None]}
    \cup
    {[net |-> TRUE, ok |-> FALSE, status |-> st, json |-> FALSE,
      uploadUrl |-> None, fileKey |-> None, expiresIn |-> None, fields |-> None]
       : st \in LambdaStatuses}
    \cup
    {[net |-> TRUE, ok |-> TRUE, status |-> 200, json |-> TRUE,
      uploadUrl |-> None, fileKey |-> Some(fileName),
      expiresIn |-> Some(900), fields |-> None],
     [net |-> TRUE, ok |-> TRUE, status |-> 200, json |-> TRUE,
      uploadUrl |-> Some(UrlHost \o fileName \o UrlQuery),
      fileKey |-> Some(fileName),
      expiresIn |-> Some(900), fields |-> Some(UpstreamFields)],
     [net |-> TRUE, ok |-> TRUE, status |-> 200, json |-> TRUE,
      uploadUrl |-> Some(UrlHost \o fileName \o UrlQuery),
      fileKey |-> None, expiresIn |-> None, fields |-> None],
     [net |-> TRUE, ok |-> TRUE, status |-> 200, json |-> TRUE,
      uploadUrl |-> Some(UrlHost \o fileName \o UrlQuery),
      fileKey |-> Some(<< >>), expiresIn |-> Some(0), fields |-> None],
     [net |-> TRUE, ok |-> TRUE, status |-> 200, json |-> FALSE,
      uploadUrl |-> None, fileKey |-> None, expiresIn |-> None, fields |-> None]}

\* fileName.split('/').pop() || fileName
originalName(fileName) ==
    LET n == pop(split(fileName, "/")) IN IF n # << >> THEN n ELSE fileName

\* the route that answers an upstream failure status with a plain 500
presignedUrlPOST_Status500(body, upstream, now) ==
    IF body.fileName = << >>
    THEN RouteError(400, FileNameRequiredMsg)
    ELSE IF ~upstream.net
    THEN RouteError(500, InternalErrorMsg)
    ELSE IF ~upstream.ok
    THEN RouteError(500, LambdaStatusMsg(upstream.status))
    ELSE IF ~upstream.json
    THEN RouteError(500, InternalErrorMsg)
    ELSE IF upstream.uploadUrl \in {None, Some(<< >>)}
    THEN RouteResponse(200, None,
            Some(MockUrlHost \o body.fileName \o MockUrlQuery),
            Some(body.fileName), Some(3600),
            Some(("Content-Type" :> MimeKml)
                 @@ ("x-amz-meta-original-name" :> originalName(body.fileName))
                 @@ ("x-amz-meta-upload-timestamp" :> now)),
            TRUE)
    ELSE RouteResponse(200, None,
            upstream.uploadUrl,
            IF upstream.fileKey \notin {None, Some(<< >>)}
            THEN upstream.fileKey ELSE Some(body.fileName),
            IF upstream.expiresIn \notin {None, Some(0)}
            THEN upstream.expiresIn ELSE Some(3600),
            IF upstream.fields # None THEN upstream.fields
            ELSE Some(("x-amz-meta-original-name" :> originalName(body.fileName))
                      @@ ("x-amz-meta-upload-timestamp" :> now)),
            TRUE)

\* a route without the fallback: it passes on whatever uploadUrl it got
presignedUrlPOST_NoFallback(body, upstream, now) ==
    IF body.fileName = << >>
    THEN RouteError(400, FileNameRequiredMsg)
    ELSE IF ~upstream.net
    THEN RouteError(500, InternalErrorMsg)
    ELSE IF ~upstream.ok
    THEN RouteError(upstream.status, LambdaStatusMsg(upstream.status))
    ELSE IF ~upstream.json
    THEN RouteError(500, InternalErrorMsg)
    ELSE RouteResponse(200, None,
            upstream.uploadUrl,
            IF upstream.fileKey \notin {None, Some(<< >>)}
            THEN upstream.fileKey ELSE Some(body.fileName),
            IF upstream.expiresIn \notin {None, Some(0)}
            THEN upstream.expiresIn ELSE Some(3600),
            IF upstream.fields # None THEN upstream.fields
            ELSE Some(("x-amz-meta-original-name" :> originalName(body.fileName))
                      @@ ("x-amz-meta-upload-timestamp" :> now)),
            TRUE)

\* a route that passes on the Lambda function's expiresIn and fields as
\* they are
presignedUrlPOST_NoDefaults(body, upstream, now) ==
    IF body.fileName = << >>
    THEN RouteError(400, FileNameRequiredMsg)
    ELSE IF ~upstream.net
    THEN RouteError(500, InternalErrorMsg)
    ELSE IF ~upstream.ok
    THEN RouteError(upstream.status, LambdaStatusMsg(upstream.status))
    ELSE IF ~upstream.json
    THEN RouteError(500, InternalErrorMsg)
    ELSE IF upstream.uploadUrl \in {None, Some(<< >>)}
    THEN RouteResponse(200, None,
            Some(MockUrlHost \o body.fileName \o MockUrlQuery),
            Some(body.fileName), Some(3600),
            Some(("Content-Type" :> MimeKml)
                 @@ ("x-amz-meta-original-name" :> originalName(body.fileName))
                 @@ ("x-amz-meta-upload-timestamp" :> now)),
            TRUE)
    ELSE RouteResponse(200, None,
            upstream.uploadUrl,
            IF upstream.fileKey \notin {None, Some(<< >>)}
            THEN upstream.fileKey ELSE Some(body.fileName),
            upstream.expiresIn,
            upstream.fields,
            TRUE)

\* POST: body.fileName is "" when the body has no (or an empty) fileName
presignedUrlPOST(body, upstream, now) ==
    IF body.fileName = << >>
    THEN RouteError(400, FileNameRequiredMsg)
    ELSE IF ~upstream.net
    THEN RouteError(500, InternalErrorMsg)
    ELSE IF ~upstream.ok
    THEN RouteError(upstream.status, LambdaStatusMsg(upstream.status))
    ELSE IF ~upstream.json
    THEN RouteError(500, InternalErrorMsg)
    ELSE IF upstream.uploadUrl \in {None, Some(<< >>)}
    THEN RouteResponse(200, None,
            Some(MockUrlHost \o body.fileName \o MockUrlQuery),
            Some(body.fileName), Some(3600),
            Some(("Content-Type" :> MimeKml)
                 @@ ("x-amz-meta-original-name" :> originalName(body.fileName))
                 @@ ("x-amz-meta-upload-timestamp" :> now)),
            TRUE)
    ELSE RouteResponse(200, None,
            upstream.uploadUrl,
            IF upstream.fileKey \notin {None, Some(<< >>)}
            THEN upstream.fileKey ELSE Some(body.fileName),
            IF upstream.expiresIn \notin {None, Some(0)}
            THEN upstream.expiresIn ELSE Some(3600),
            IF upstream.fields # None THEN upstream.fields
            ELSE Some(("x-amz-meta-original-name" :> originalName(body.fileName))
                      @@ ("x-amz-meta-upload-timestamp" :> now)),
            TRUE)

\* OPTIONS: an empty 200 with the three Access-Control-Allow-* headers
presignedUrlOPTIONS == RouteResponse(200, None, None, None, None, None, TRUE)

\* the Response the browser's fetch resolves with for a response of the route
asFetchResponse(answer) ==
    [net |-> TRUE, ok |-> answer.status >= 200 /\ answer.status <= 299,
     status |-> answer.status, presignedUrl |-> answer.presignedUrl,
     fileKey |-> answer.fileKey, expiresIn |-> answer.expiresIn,
     fields |-> answer.fields]

(***************************************************************************)
(* requestPresignedUrl called on its own, with any arguments (its caller   *)
(* need not have validated them), against the route above.                 *)
(***************************************************************************)
CallNames == {f.name : f \in Files}
CallTypes == {<< >>, MimeKmlXml, MimePng}
CallSizes == {10, MaxBytes, MaxBytes + 1}

\* a call can be made: none is in progress
Callable == {"idle", "returned", "thrown"}

\* the call up to its first await: the two checks, then the fetch
RequestPresignedUrl(fileName, fileType, fileSize) ==
    /\ req.stage \in Callable
    /\ LET thrown == presignPrecheck(fileName, fileType, fileSize)
           call == [NoRequest EXCEPT !.fileName = fileName, !.fileType = fileType,
                                     !.fileSize = fileSize]
       IN  req' = IF thrown # None
                  THEN [call EXCEPT !.stage = "thrown", !.thrown = thrown]
                  ELSE [call EXCEPT !.stage = "fetching", !.fetches = 1]
    /\ UNCHANGED <<componentVars, transferVars, pageVars>>

\* the route handles the POST of the call
PresignedUrlPOST(upstream, now) ==
    /\ req.stage = "fetching"
    /\ req' = [req EXCEPT !.stage = "answered",
                          !.answer = Some(presignedUrlPOST(
                               presignRequestBody(req.fileName), upstream, now))]
    /\ UNCHANGED <<componentVars, transferVars, pageVars>>

\* the fetch rejects: the request never reached the route
PresignFetchFailed ==
    /\ req.stage = "fetching"
    /\ req' = [req EXCEPT !.stage = "thrown",
                          !.thrown = presignError(
                               [asFetchResponse(RouteError(0, InternalErrorMsg))
                                  EXCEPT !.net = FALSE])]
    /\ UNCHANGED <<componentVars, transferVars, pageVars>>

\* the fetch resolved with the route's response: the rest of the try block
PresignAnswered(now) ==
    /\ req.stage = "answered"
    /\ LET resp == asFetchResponse(req.answer[1])
           thrown == presignError(resp)
       IN  req' = IF thrown # None
                  THEN [req EXCEPT !.stage = "thrown", !.thrown = thrown]
                  ELSE [req EXCEPT !.stage = "returned",
                                   !.result = Some(presignResult(
                                        resp, req.fileName, req.fileType, now))]
    /\ UNCHANGED <<componentVars, transferVars, pageVars>>

NextCredentials ==
    \/ \E fileName \in CallNames : \E fileType \in CallTypes :
          \E fileSize \in CallSizes :
             RequestPresignedUrl(fileName, fileType, fileSize)
    \/ \E now \in Clock :
          \E upstream \in LambdaResponses(presignRequestBody(req.fileName).fileName) :
             PresignedUrlPOST(upstream, now)
    \/ PresignFetchFailed
    \/ \E now \in Clock : PresignAnswered(now)

SpecCredentials == Init /\ [][NextCredentials]_vars

(***************************************************************************)
(* uploadFileToS3 followed on its own: one handleUpload run from the       *)
(* moment it calls uploadFileToS3 with the URL its credential request      *)
(* returned, with the time since xhr.send().  onProgress is the arrow      *)
(* function handleUpload passes (it stores the progress in uploadStatus)   *)
(* and a rejection lands in handleUpload's catch block.                    *)
(***************************************************************************)
\* xhr.timeout, in ms
xhrTimeout == 30000
\* the time that passes in one step of waiting, in ms
TimeStep == 15000
\* onProgress calls followed per transfer
MaxProgressCalls == 3

FEmpty == [name |-> <<"e", ".", "k", "m", "l">>,
            type |-> << >>, size |-> 0]
TransferFiles == {FNoDot, FNotes, FEmpty}

\* a query string with a '/' in a parameter value
SlashQuery == <<"?", "r", "=", "a", "/", "b">>

\* presigned URLs for a file: key and query, key only, a key that ends in
\* '/', and a query that contains a '/'
TransferUrls(file) ==
    {UrlHost \o KeyPrefix \o file.name \o UrlQuery,
     UrlHost \o KeyPrefix \o file.name,
     UrlHost \o KeyPrefix \o UrlQuery,
     UrlHost \o KeyPrefix \o file.name \o SlashQuery}

\* event.loaded of the progress events of a body of `total` bytes
TransferPoints(total) ==
    {n \in {0, 3 * (total \div 8), total - 1, total} : n >= 0}

\* file.size of the file being sent (event.total of its progress events)
xhrTotal == IF xhr.file = None THEN 0 ELSE xhr.file[1].size

\* handleUpload calls uploadFileToS3: the executor creates the
\* XMLHttpRequest, adds its listeners, sets the timeout and sends the file
TransferCall(file, presignedUrl) ==
    /\ xhr.stage \in {"unsent", "resolved", "rejected"}
    /\ xhr' = [NoXhr EXCEPT !.stage = "sent", !.file = Some(file),
                            !.presignedUrl = presignedUrl]
    /\ uploadStatus' = [IdleStatus EXCEPT !.status = "uploading"]
    /\ lastOp' = Op("handleUpload", NoCallback)
    /\ UNCHANGED <<selectedFile, attempts, req, relay, pageVars>>

\* time passes without an event of the request
TransferWait ==
    /\ xhr.stage = "sent"
    /\ xhr.elapsed < xhrTimeout
    /\ xhr' = [xhr EXCEPT !.elapsed = @ + TimeStep]
    /\ UNCHANGED <<componentVars, req, relay, pageVars>>

\* the progress listener of xhr.upload (lengthComputable is false for a
\* body of unknown or zero length)
TransferProgress(loaded, lengthComputable) ==
    /\ xhr.stage = "sent"
    /\ xhr.elapsed < xhrTimeout
    /\ loaded >= xhr.loaded
    /\ Len(xhr.calls) < MaxProgressCalls
    /\ lengthComputable => xhrTotal > 0
    /\ LET progress == xhrProgress(loaded, xhrTotal) IN
       /\ xhr' = [xhr EXCEPT !.loaded = loaded,
                             !.calls = IF lengthComputable
                                       THEN Append(@, progress) ELSE @]
       /\ uploadStatus' = IF lengthComputable
                          THEN [uploadStatus EXCEPT !.progress = progress]
                          ELSE uploadStatus
    /\ lastOp' = Op("xhr.progress", NoCallback)
    /\ UNCHANGED <<selectedFile, attempts, req, relay, pageVars>>

\* the promise rejects: handleUpload's catch block
TransferRejected(message, handler) ==
    /\ xhr' = [xhr EXCEPT !.stage = "rejected", !.settled = @ + 1,
                          !.reason = Some(message)]
    /\ uploadStatus' = ErrorStatus(message)
    /\ lastOp' = Op(handler, onUploadError(message))

\* a load listener that takes every status up to 300 for a success
TransferLoad_Accepts300(status, now) ==
    /\ xhr.stage = "sent"
    /\ xhr.elapsed < xhrTimeout
    /\ IF status >= 200 /\ status <= 300
       THEN /\ xhr' = [xhr EXCEPT !.stage = "resolved", !.settled = @ + 1,
                          !.fileKey = Some(extractFileKey(
                               xhr.presignedUrl, xhr.file[1], now))]
            /\ lastOp' = Op("xhr.load", NoCallback)
            /\ UNCHANGED uploadStatus
       ELSE TransferRejected(UploadStatusMsg(status), "xhr.load")
    /\ UNCHANGED <<selectedFile, attempts, req, relay, pageVars>>

\* the load listener
TransferLoad(status, now) ==
    /\ xhr.stage = "sent"
    /\ xhr.elapsed < xhrTimeout
    /\ IF status >= 200 /\ status < 300
       THEN /\ xhr' = [xhr EXCEPT !.stage = "resolved", !.settled = @ + 1,
                          !.fileKey = Some(extractFileKey(
                               xhr.presignedUrl, xhr.file[1], now))]
            /\ lastOp' = Op("xhr.load", NoCallback)
            /\ UNCHANGED uploadStatus
       ELSE TransferRejected(UploadStatusMsg(status), "xhr.load")
    /\ UNCHANGED <<selectedFile, attempts, req, relay, pageVars>>

\* the error listener
TransferError ==
    /\ xhr.stage = "sent"
    /\ xhr.elapsed < xhrTimeout
    /\ TransferRejected(NetworkErrorMsg, "xhr.error")
    /\ UNCHANGED <<selectedFile, attempts, req, relay, pageVars>>

\* a timeout listener that lets the request go on
TransferTimeout_Ignored ==
    /\ xhr.stage = "sent"
    /\ xhr.elapsed >= xhrTimeout
    /\ xhr' = [xhr EXCEPT !.elapsed = 0]
    /\ lastOp' = Op("xhr.timeout", NoCallback)
    /\ UNCHANGED <<uploadStatus, selectedFile, attempts, req, relay, pageVars>>

\* the timeout listener: xhr.timeout ms have passed since send() and the
\* request is not done
TransferTimeout ==
    /\ xhr.stage = "sent"
    /\ xhr.elapsed >= xhrTimeout
    /\ TransferRejected(TimeoutMsg, "xhr.timeout")
    /\ UNCHANGED <<selectedFile, attempts, req, relay, pageVars>>

(***************************************************************************)
(* POST /api/upload-proxy (src/src/app/api/upload-proxy/route.ts): the     *)
(* response computed from the form and from what the PUT to the presigned  *)
(* URL answered.                                                           *)
(***************************************************************************)
RelayResponse(status, error, success, fileKey, message) ==
    [status |-> status, error |-> error, success |-> success,
     fileKey |-> fileKey, message |-> message, cors |-> FALSE]

RelayError(status, message) == RelayResponse(status, Some(message), FALSE, None, None)

FormFieldsRequiredMsg == Msg("File and presignedUrl are required", 0, "")
RelayFailedMsg == Msg("Upload failed", 0, "")

\* what the PUT can settle with: a transport failure or a status
PutResponses ==
    {[net |-> FALSE, ok |-> FALSE, status |-> 0]}
    \cup {[net |-> TRUE, ok |-> st >= 200 /\ st <= 299, status |-> st] : st \in XhrStatuses}

\* the forms posted: both fields, no file, no presignedUrl
RelayForms ==
    {[file |-> Some(file), presignedUrl |-> url] :
        file \in TransferFiles, url \in UNION {TransferUrls(f) : f \in TransferFiles}}
    \cup {[file |-> None, presignedUrl |-> UrlHost \o KeyPrefix \o FNoDot.name],
          [file |-> Some(FNoDot), presignedUrl |-> << >>]}

\* presignedUrl.split('/').pop()?.split('?')[0] || `input_kml_files/${Date.now()}-${file.name}`
uploadProxyFileKey(presignedUrl, file, now) ==
    LET k == split(pop(split(presignedUrl, "/")), "?")[1]
    IN  IF k # << >> THEN k ELSE KeyPrefix \o now \o <<"-">> \o file.name

\* a route that does not look at the status of the PUT
uploadProxyPOST_AnyPutStatus(form, put, now) ==
    IF form.file = None \/ form.presignedUrl = << >>
    THEN RelayError(400, FormFieldsRequiredMsg)
    ELSE IF ~put.net
    THEN RelayError(500, RelayFailedMsg)
    ELSE RelayResponse(200, None, TRUE,
            Some(uploadProxyFileKey(form.presignedUrl, form.file[1], now)),
            Some("File uploaded successfully"))

\* POST: form.file is None and form.presignedUrl is "" when the field is
\* missing; put is what the PUT settles with
uploadProxyPOST(form, put, now) ==
    IF form.file = None \/ form.presignedUrl = << >>
    THEN RelayError(400, FormFieldsRequiredMsg)
    ELSE IF ~put.net \/ ~put.ok
    THEN RelayError(500, RelayFailedMsg)
    ELSE RelayResponse(200, None, TRUE,
            Some(uploadProxyFileKey(form.presignedUrl, form.file[1], now)),
            Some("File uploaded successfully"))

\* OPTIONS: an empty 200 with the three Access-Control-Allow-* headers
uploadProxyOPTIONS ==
    [RelayResponse(200, None, FALSE, None, None) EXCEPT !.cors = TRUE]

\* the form has both fields: the route goes on to the PUT
FormComplete(form) == form.file # None /\ form.presignedUrl # << >>

\* the route handles a POST (its PUT included, when it makes one)
UploadProxyPOST(form, put, now) ==
    /\ relay' = Some([method |-> "POST", form |-> Some(form),
                      put |-> IF FormComplete(form) THEN Some(put) ELSE None,
                      now |-> now,
                      response |-> uploadProxyPOST(form, put, now)])
    /\ UNCHANGED <<componentVars, req, xhr, pageVars>>

\* the route handles an OPTIONS request
UploadProxyOPTIONS ==
    /\ relay' = Some([method |-> "OPTIONS", form |-> None, put |-> None,
                      now |-> << >>,
                      response |-> uploadProxyOPTIONS])
    /\ UNCHANGED <<componentVars, req, xhr, pageVars>>

NextTransfer ==
    \/ \E file \in TransferFiles : \E presignedUrl \in TransferUrls(file) :
          TransferCall(file, presignedUrl)
    \/ TransferWait
    \/ \E lengthComputable \in BOOLEAN :
          \E loaded \in TransferPoints(xhrTotal) :
             TransferProgress(loaded, lengthComputable)
    \/ \E status \in XhrStatuses : \E now \in Clock : TransferLoad(status, now)
    \/ TransferError
    \/ TransferTimeout

SpecTransfer == Init /\ [][NextTransfer]_vars

\* the browser's clock goes on and fires the timeout of a request that is
\* not done after xhr.timeout ms
SpecTransferFair ==
    SpecTransfer /\ WF_vars(TransferWait) /\ WF_vars(TransferTimeout)

NextRelay ==
    \/ \E form \in RelayForms : \E put \in PutResponses : \E now \in Clock :
          UploadProxyPOST(form, put, now)
    \/ UploadProxyOPTIONS

SpecRelay == Init /\ [][NextRelay]_vars

(***************************************************************************)
(* The demo page (src/src/app/kml-analysis-demo/page.tsx):                 *)
(* handleUploadComplete adds an analysis record and starts its timers, a   *)
(* 2000 ms interval whose callback awaits a 1000 ms timer and then updates *)
(* the record, and a 30000 ms timeout that clears the interval.            *)
(***************************************************************************)
\* the delays of the timers, in ms
PollInterval == 2000
PollDelay == 1000
PollBudget == 30000

\* firings of the interval that are due before, and by, the 30000 ms timeout
DueBeforeBudget == (PollBudget - 1) \div PollInterval
DueByBudget == PollBudget \div PollInterval

UnknownFile == <<"U", "n", "k", "n", "o", "w", "n", " ", "f", "i", "l", "e">>

\* the file keys and the analysis ids FileUpload passes to onUploadComplete:
\* a key without '/', a key under the prefix, and a key that ends in '/';
\* an id is `analysis-${Date.now()}-${random}` (processKmlFile)
CompletedKeys == {FKmz.name, KeyPrefix \o FNoDot.name, KeyPrefix}
AnalysisIds == {analysisIdOf(<<"1", "7">>, <<"r">>), analysisIdOf(<<"1", "8">>, <<"r">>)}
CompletedUploads ==
    {[fileKey |-> k, analysisId |-> id] : k \in CompletedKeys, id \in AnalysisIds}

\* what the mock status of a tick can be: 'completed' with progress 100, or
\* 'processing' with Math.floor(Math.random() * 80) + 20
MockStatuses ==
    {[status |-> "completed", progress |-> 100]}
    \cup {[status |-> "processing", progress |-> n] : n \in {20, 99}}

\* the `results` object of a completed analysis (its numbers are random)
MockResults == "results"

RecordIds == {analysisResults[i].id : i \in 1..Len(analysisResults)}

\* handleUploadComplete(fileKey, analysisId); processKmlFile makes a new
\* id for every upload
HandleUploadComplete(fileKey, analysisId) ==
    /\ mounted
    /\ analysisId \notin RecordIds
    /\ LET name == pop(split(fileKey, "/"))
           newAnalysis == [id |-> analysisId,
                           fileName |-> IF name # << >> THEN name ELSE UnknownFile,
                           fileKey |-> fileKey,
                           status |-> "processing",
                           progress |-> 0,
                           results |-> None]
       IN  analysisResults' = << newAnalysis >> \o analysisResults
    /\ isProcessing' = TRUE
    /\ pollers' = Append(pollers, [id |-> analysisId, interval |-> TRUE,
                                   timeout |-> TRUE, fired |-> 0, pending |-> 0])
    /\ UNCHANGED <<mounted, componentVars, credentialVars, transferVars>>

\* the interval of poller i fires: its callback starts and awaits the
\* 1000 ms timer.  That timer is due before the next firing of the interval,
\* so the callback of the firing before has finished.
IntervalFires(i) ==
    /\ i \in 1..Len(pollers)
    /\ pollers[i].interval
    /\ pollers[i].fired < DueByBudget
    /\ PollDelay < PollInterval => pollers[i].pending = 0
    /\ pollers' = [pollers EXCEPT ![i].fired = @ + 1, ![i].pending = @ + 1]
    /\ UNCHANGED <<analysisResults, isProcessing, mounted,
                   componentVars, credentialVars, transferVars>>

\* a tick that writes the status it got but not the progress
updatedRecord_StatusOnly(result, id, mock) ==
    IF result.id = id
    THEN [result EXCEPT !.status = mock.status,
                        !.results = IF mock.status = "completed"
                                    THEN Some(MockResults) ELSE @]
    ELSE result

\* a tick that writes what it got into every record of the list
updatedRecord_AnyId(result, id, mock) ==
    [result EXCEPT !.status = mock.status,
                   !.progress = mock.progress,
                   !.results = IF mock.status = "completed"
                               THEN Some(MockResults) ELSE @]

\* the record of analysis `id` after a tick that got `mock`
updatedRecord(result, id, mock) ==
    IF result.id = id
    THEN [result EXCEPT !.status = mock.status,
                        !.progress = mock.progress,
                        !.results = IF mock.status = "completed"
                                    THEN Some(MockResults) ELSE @]
    ELSE result

\* the 1000 ms timer of a callback of poller i fires: the rest of the
\* callback (setAnalysisResults, and on 'completed' clearInterval and
\* setIsProcessing(false))
MockStatusResolves(i, mock) ==
    /\ i \in 1..Len(pollers)
    /\ pollers[i].pending > 0
    /\ analysisResults' = [k \in 1..Len(analysisResults) |->
                             updatedRecord(analysisResults[k], pollers[i].id, mock)]
    /\ pollers' = [pollers EXCEPT ![i].pending = @ - 1,
                                  ![i].interval = IF mock.status = "completed"
                                                  THEN FALSE ELSE @]
    /\ isProcessing' = IF mock.status = "completed" THEN FALSE ELSE isProcessing
    /\ UNCHANGED <<mounted, componentVars, credentialVars, transferVars>>

\* the 30000 ms timeout of poller i fires, after every firing of the
\* interval (and every 1000 ms timer) that was due before it
BudgetTimeout(i) ==
    /\ i \in 1..Len(pollers)
    /\ pollers[i].timeout
    /\ pollers[i].interval =>
          /\ pollers[i].fired >= DueBeforeBudget
          /\ pollers[i].fired = DueBeforeBudget => pollers[i].pending = 0
    /\ pollers' = [pollers EXCEPT ![i].timeout = FALSE, ![i].interval = FALSE]
    /\ isProcessing' = FALSE
    /\ UNCHANGED <<analysisResults, mounted,
                   componentVars, credentialVars, transferVars>>

\* the page unmounts: no effect cleanup touches the timers of
\* handleUploadComplete
Unmount ==
    /\ mounted
    /\ mounted' = FALSE
    /\ UNCHANGED <<analysisResults, isProcessing, pollers,
                   componentVars, credentialVars, transferVars>>

NextPage ==
    \/ \E upload \in CompletedUploads :
          HandleUploadComplete(upload.fileKey, upload.analysisId)
    \/ \E i \in 1..Len(pollers) : IntervalFires(i)
    \/ \E i \in 1..Len(pollers) : \E mock \in MockStatuses : MockStatusResolves(i, mock)
    \/ \E i \in 1..Len(pollers) : BudgetTimeout(i)
    \/ Unmount

SpecPage == Init /\ [][NextPage]_vars

(***************************************************************************)
(* Properties.                                                             *)
(***************************************************************************)
Status == uploadStatus.status
InFlightCount == BagCardinality(attempts)

UserHandlers == {"handleFileInputChange", "handleDrop", "clearFile", "handleUpload"}
SelectHandlers == {"handleFileInputChange", "handleDrop"}

\* the step is handleFileSelect(file), from the picker or from a drop
SelectStep(file) == HandleFileInputChange(file) \/ HandleDrop(file)

\* a name ends, case-insensitively, in one of the accepted extensions
HasAcceptedSuffix(name) == \E ext \in acceptedTypes : endsWith(toLowerCase(name), ext)

ValidationMessages == {TooLargeMsg, UnsupportedTypeMsg}

\* C1: the parts of the statement
C1_ForwardTransition ==
    \/ Status' = Status
    \/ Status = "idle" /\ Status' \in {"uploading", "error"}
    \/ Status = "uploading" /\ Status' \in {"success", "error"}
    \/ Status \in {"success", "error"} /\ Status' = "idle"

(* C1: uploadStatus.status moves only forward, idle -> uploading ->        *)
(* {success, error} (idle -> error on a failed validation), and goes back  *)
(* to idle only from success or error; in particular never from uploading  *)
(* to idle and never from error to success.                                *)
C1_ForwardOnly == [][C1_ForwardTransition]_vars

(* C2: at most one handleUpload run is in flight at any time.              *)
C2_SingleUploadInFlight == InFlightCount <= 1

\* C3: the parts of the statement
PresignFailureMessages ==
    {SizeLimitMsg, OnlyKmlMsg, WrapMsg(0, FetchFailedMsg),
     WrapMsg(0, "Invalid response from server: missing presignedUrl")}
    \cup {WrapMsg(st, "Failed to get presigned URL: ${response.status} ${response.statusText}")
             : st \in 100..599}
TransferFailureMessages ==
    {NetworkErrorMsg, TimeoutMsg} \cup {UploadStatusMsg(st) : st \in 100..599}

C3_StageOrder(run) ==
    /\ run.credentialCalls = 1
    /\ run.stage = "rejected" =>
          run.fetches = 0 /\ run.transferCalls = 0 /\ run.processCalls = 0
    /\ run.stage = "credentials" =>
          /\ run.fetches = 1 /\ run.presignedData = None
          /\ run.transferCalls = 0 /\ run.processCalls = 0
    /\ run.stage = "transfer" =>
          /\ run.fetches = 1 /\ run.presignedData # None
          /\ run.transferCalls = 1 /\ run.fileKey = None /\ run.processCalls = 0
    /\ run.stage = "processing" =>
          /\ run.presignedData # None /\ run.transferCalls = 1
          /\ run.fileKey # None /\ run.processCalls = 1

\* the step ends a run in the catch block
C3_RunFailed(run) ==
    /\ run \in Running
    /\ attempts' = Remove(run)
    /\ lastOp'.cb.kind = "error"

C3_Step ==
    /\ \A run \in BagToSet(attempts') : C3_StageOrder(run)
    /\ BagCardinality(attempts') > InFlightCount =>
          /\ selectedFile # None
          /\ validateFile(selectedFile[1]) = None
          /\ \E run \in BagToSet(attempts') :
                /\ attempts' = attempts (+) SetToBag({run})
                /\ run.file = selectedFile[1]
                /\ run.stage \in {"rejected", "credentials"}
    /\ \A run \in Running :
          C3_RunFailed(run) =>
             /\ Status' = "error"
             /\ uploadStatus'.error = lastOp'.cb.message
             /\ run.stage \in {"rejected", "credentials"} =>
                   /\ uploadStatus'.error[1] \in PresignFailureMessages
                   /\ run.transferCalls = 0 /\ run.processCalls = 0
             /\ run.stage = "transfer" =>
                   /\ uploadStatus'.error[1] \in TransferFailureMessages
                   /\ run.processCalls = 0
             /\ run.stage # "processing"

(* C3: handleUpload starts only with a selected file that passed           *)
(* validateFile; a run calls uploadFileToS3 only after requestPresignedUrl *)
(* returned credentials, and processKmlFile only after the transfer        *)
(* resolved with a file key; a run whose stage fails ends there (it calls  *)
(* no later stage) and the status becomes error with that failure's        *)
(* message.                                                                *)
C3_StagesInOrder == [][C3_Step]_vars

\* a transfer failed after credentials were returned: the status is error
\* with the transfer's message and the run is gone
C3_Witness ==
    /\ lastOp.handler = "xhr.load"
    /\ lastOp.cb.kind = "error"
    /\ Status = "error"
    /\ uploadStatus.error = Some(UploadStatusMsg(300))
    /\ attempts = EmptyBag

\* C4: the parts of the statement
C4_Step ==
    /\ (Status' = "success" /\ Status # "success") \/ lastOp'.cb.kind = "complete" =>
          \E run \in Running :
             /\ run.stage = "processing"
             /\ run.presignedData # None /\ run.fileKey # None
             /\ attempts' = Remove(run)
             /\ lastOp'.cb.fileKey = run.fileKey
    /\ \A run \in Running : \A now \in Clock : \A rnd \in RandomSuffixes :
          ProcessResolved(run, now, rnd) =>
             /\ Status = "uploading"
             /\ Status' = "success"
             /\ uploadStatus'.fileKey = run.fileKey
             /\ lastOp'.cb = onUploadComplete(run.fileKey[1], analysisIdOf(now, rnd))

(* C4: the status becomes success, and onUploadComplete(fileKey,           *)
(* analysisId) is called, only by a run whose three stages succeeded; and  *)
(* whenever processKmlFile resolves for a run the status moves from        *)
(* uploading to success with the run's fileKey and the callback fires.     *)
C4_SuccessAfterAllStages == [][C4_Step]_vars

\* C5: the parts of the statement
C5_OwnCredentials(run) ==
    /\ run.presignedData # None =>
          \E now \in Clock :
             \E resp \in PresignResponses(presignRequestBody(run.file.name)) :
                /\ presignError(resp) = None
                /\ run.presignedData[1] =
                      presignResult(resp, run.file.name, run.file.type, now)
    /\ run.fileKey # None =>
          \E now \in Clock :
             run.fileKey[1] =
                extractFileKey(run.presignedData[1].presignedUrl, run.file, now)

C5_Step ==
    /\ lastOp'.handler = "clearFile" =>
          /\ Status' = "idle"
          /\ uploadStatus'.progress = [loaded |-> 0, total |-> 0, percentage |-> 0]
          /\ uploadStatus'.error = None /\ uploadStatus'.fileKey = None
          /\ selectedFile' = None
          /\ attempts' = attempts
    /\ lastOp'.handler = "handleUpload" =>
          \E run \in BagToSet(attempts') :
             /\ attempts' = attempts (+) SetToBag({run})
             /\ selectedFile # None /\ run.file = selectedFile[1]
             /\ run.presignedData = None /\ run.fileKey = None
             /\ run.credentialCalls = 1
             /\ run.transferCalls = 0 /\ run.processCalls = 0
    /\ \A run \in BagToSet(attempts') : C5_OwnCredentials(run)

(* C5: clearFile, from success or from error, leaves status idle, progress *)
(* {0,0,0} and no selected file; a handleUpload run started afterwards     *)
(* is for the file selected then, starts without credentials or file key,  *)
(* makes its own credential request, and the credentials and file key it   *)
(* goes on with are derived from its own file.                             *)
C5_ResetThenFreshAttempt == [][C5_Step]_vars

\* clearFile has just run from success
C5_Witness ==
    /\ lastOp.handler = "clearFile"
    /\ lastOp.from = "success"
    /\ uploadStatus = IdleStatus
    /\ selectedFile = None

\* C6: the parts of the statement
C6_Step ==
    lastOp'.handler \in SelectHandlers =>
    \A file \in Files :
       SelectStep(file) =>
          IF file.size > MaxBytes \/ fileExtension(file) \notin acceptedTypes
          THEN /\ Status' = "error"
               /\ uploadStatus'.progress = [loaded |-> 0, total |-> 0, percentage |-> 0]
               /\ uploadStatus'.error \in {Some(m) : m \in ValidationMessages}
               /\ lastOp'.cb = onUploadError(uploadStatus'.error[1])
          ELSE /\ Status' = "idle"
               /\ uploadStatus'.progress = [loaded |-> 0, total |-> 0, percentage |-> 0]
               /\ uploadStatus'.error = None
               /\ selectedFile' = Some(file)
               /\ lastOp'.cb.kind = "none"

(* C6: handleFileSelect with a file that fails validation sets status      *)
(* error with the validation message and zeroed progress and passes the    *)
(* message to onUploadError; with a valid file (also right after such an   *)
(* error) it sets status idle with zeroed progress and selects the file.   *)
C6_SelectSetsErrorOrClears == [][C6_Step]_vars

\* a valid file was selected while a validation error was showing
C6_Witness ==
    /\ lastOp.handler \in SelectHandlers
    /\ lastOp.from = "error"
    /\ Status = "idle"
    /\ selectedFile # None

\* C7: the parts of the statement
C7_Step ==
    /\ \A run \in BagToSet(attempts') :
          run.credentialCalls <= 1 /\ run.transferCalls <= 1 /\ run.processCalls <= 1
    /\ \A run \in Running :
          C3_RunFailed(run) =>
             Status' = "error" /\ lastOp'.cb = onUploadError(uploadStatus'.error[1])
    /\ ( /\ Status = "error"
         /\ uploadStatus.error[1] \notin ValidationMessages
         /\ Status' # "error" )
       => lastOp'.handler \in {"clearFile"} \cup SelectHandlers

(* C7: a run calls each of requestPresignedUrl, uploadFileToS3 and         *)
(* processKmlFile at most once; its first failure sets status error and    *)
(* passes the message to onUploadError; and a status of error set by a     *)
(* run's failure stays error until clearFile or a new selection.           *)
C7_ErrorsAreTerminal == [][C7_Step]_vars

\* C8: the parts of the statement
C8_Step ==
    /\ lastOp'.handler \in SelectHandlers =>
       \A file \in Files :
          SelectStep(file) =>
             /\ file.size > maxFileSize * 1024 * 1024 =>
                   /\ validateFile(file) = Some(TooLargeMsg)
                   /\ uploadStatus'.error = Some(TooLargeMsg)
                   /\ selectedFile' = selectedFile
                   /\ attempts' = attempts
             /\ file.size = maxFileSize * 1024 * 1024 =>
                   /\ validateFile(file) # Some(TooLargeMsg)
                   /\ uploadStatus'.error # Some(TooLargeMsg)
    /\ selectedFile' # None => selectedFile'[1].size <= maxFileSize * 1024 * 1024
    /\ \A run \in BagToSet(attempts') : run.file.size <= maxFileSize * 1024 * 1024

(* C8: for every file larger than maxFileSize * 1024 * 1024 bytes          *)
(* validateFile fails with the too-large message, selecting it leaves the  *)
(* selected file as it was and starts no run (no network call); a file of  *)
(* exactly that size is not rejected for its size; so no selected file and *)
(* no run's file is over the limit.                                        *)
C8_TooLargeRejected == [][C8_Step]_vars

\* an oversized file was offered while a file of exactly the maximum size
\* stayed selected
C8_Witness ==
    /\ lastOp.handler \in SelectHandlers
    /\ uploadStatus.error = Some(TooLargeMsg)
    /\ selectedFile # None
    /\ selectedFile[1].size = MaxBytes

\* C9: the parts of the statement
C9_Step ==
    lastOp'.handler \in SelectHandlers =>
    \A file \in Files :
       (SelectStep(file) /\ ~HasAcceptedSuffix(file.name)) =>
          /\ validateFile(file) # None
          /\ Status' = "error"
          /\ selectedFile' = selectedFile
          /\ file.size <= MaxBytes => uploadStatus'.error = Some(UnsupportedTypeMsg)

(* C9: for every file whose name does not end (case-insensitively) in an   *)
(* accepted extension, including names without any '.', selecting it       *)
(* fails: it is not selected, and unless it is also too large the error is *)
(* the unsupported-type message.                                           *)
C9_UnsupportedTypeRejected == [][C9_Step]_vars

\* C10: the parts of the statement
C10_Step ==
    /\ \A run \in BagToSet(attempts') : validateFile(run.file) = None
    /\ selectedFile' # None => validateFile(selectedFile'[1]) = None
    /\ lastOp'.handler \in SelectHandlers =>
       \A file \in Files :
          (SelectStep(file) /\ validateFile(file) # None) =>
             attempts' = attempts /\ selectedFile' = selectedFile

(* C10: every run of handleUpload, and so every credential request, is for *)
(* a file that passed validateFile; the selected file always is one; and   *)
(* selecting a file that fails validation starts no run and leaves the     *)
(* selected file as it was.                                                *)
C10_NoRequestForInvalidFile == [][C10_Step]_vars

\* a credential request is in flight after a selection failed validation
\* while the run was going
C10_Witness ==
    /\ \E run \in Running : run.stage = "credentials" /\ run.fetches = 1
    /\ lastOp.handler = "handleDrop"
    /\ uploadStatus.error = Some(UnsupportedTypeMsg)

\* C11: the parts of the statement
KmlByMime(fileType) == includes(fileType, MimeKml) \/ includes(fileType, MimeKmz)

\* the step is a call of requestPresignedUrl (req' holds its arguments)
C11_CallStep == req.stage \in Callable /\ req'.stage \in {"thrown", "fetching"}

C11_Step ==
    /\ C11_CallStep =>
          /\ req'.fileSize > 50 * 1024 * 1024 =>
                /\ req'.stage = "thrown"
                /\ req'.thrown = Some(SizeLimitMsg)
                /\ req'.fetches = 0
          /\ (~KmlByMime(req'.fileType) /\ ~HasAcceptedSuffix(req'.fileName)) =>
                /\ req'.stage = "thrown"
                /\ req'.fetches = 0
                /\ req'.fileSize <= 50 * 1024 * 1024 =>
                      req'.thrown = Some(OnlyKmlMsg)
    /\ req'.fetches > 0 =>
          /\ req'.fileSize <= 50 * 1024 * 1024
          /\ KmlByMime(req'.fileType) \/ HasAcceptedSuffix(req'.fileName)

(* C11: requestPresignedUrl, called with arguments nobody validated, throws *)
(* the size error without fetching when fileSize is over 50 * 1024 * 1024, *)
(* and throws without fetching when neither the MIME type nor the          *)
(* extension of the name is a KML/KMZ one; so a fetch is only ever issued  *)
(* for arguments that pass both checks.                                    *)
C11_RequesterRevalidates == [][C11_Step]_vars

\* an oversized .kml file, which validateFile would have refused, was
\* passed to requestPresignedUrl: it threw without fetching
C11_Witness ==
    /\ req.stage = "thrown"
    /\ req.fileName = FBig.name
    /\ req.fileSize > MaxBytes
    /\ req.thrown = Some(SizeLimitMsg)
    /\ req.fetches = 0

\* C12: the parts of the statement
C12_Step ==
    /\ \A now \in Clock :
         \A upstream \in LambdaResponses(presignRequestBody(req.fileName).fileName) :
            (PresignedUrlPOST(upstream, now) /\ upstream.net /\ ~upstream.ok) =>
               /\ req'.answer[1].status = upstream.status
               /\ req'.answer[1].status \notin 200..299
               /\ req'.answer[1].error # None
               /\ req'.answer[1].presignedUrl = None
    /\ ( /\ req.stage = "answered"
         /\ req.answer[1].status \notin 200..299
         /\ req' # req ) =>
             /\ req'.stage = "thrown"
             /\ req'.thrown # None
             /\ req'.thrown[1].num = req.answer[1].status
             /\ req'.result = None

(* C12: POST /api/presigned-url answers a non-ok response of the Lambda    *)
(* function with {error} and that same non-2xx status; and                 *)
(* requestPresignedUrl, given a response with a non-success status, throws *)
(* an Error whose message carries the status and returns no credentials.   *)
C12_UpstreamStatusCarried == [][C12_Step]_vars

\* the Lambda answered 403, the route passed 403 on, the call threw with it
C12_Witness ==
    /\ req.stage = "thrown"
    /\ req.answer # None
    /\ req.answer[1].status = 403
    /\ req.answer[1].error = Some(LambdaStatusMsg(403))
    /\ req.thrown = Some(WrapMsg(403,
          "Failed to get presigned URL: ${response.status} ${response.statusText}"))
    /\ req.result = None

\* C13: the parts of the statement
MissingUrlMsg == WrapMsg(0, "Invalid response from server: missing presignedUrl")

C13_Step ==
    \A run \in Running : \A now \in Clock :
       \A resp \in PresignResponses(presignRequestBody(run.file.name)) :
          ( /\ resp.net /\ resp.ok
            /\ resp.presignedUrl \in {None, Some(<< >>)}
            /\ PresignSettled(run, resp, now) ) =>
               /\ presignError(resp) = Some(MissingUrlMsg)
               /\ Status' = "error"
               /\ uploadStatus'.error = Some(MissingUrlMsg)
               /\ lastOp'.cb = onUploadError(MissingUrlMsg)
               /\ run.transferCalls = 0
               /\ attempts' = Remove(run)

(* C13: when the credential request is answered with a success status and  *)
(* a body without presignedUrl, requestPresignedUrl throws the             *)
(* missing-presignedUrl error, and the handleUpload run ends there: the    *)
(* status becomes error with that message, onUploadError receives it, and  *)
(* uploadFileToS3 has not been and is not called for the run.              *)
C13_MissingUrlIsAnError == [][C13_Step]_vars

\* a run has just ended on a 200 response without presignedUrl
C13_Witness ==
    /\ lastOp.handler = "requestPresignedUrl"
    /\ lastOp.cb = onUploadError(MissingUrlMsg)
    /\ Status = "error"
    /\ uploadStatus.error = Some(MissingUrlMsg)
    /\ attempts = EmptyBag

\* the onProgress calls of the transfer so far
ProgressCalls == {xhr.calls[i] : i \in 1..Len(xhr.calls)}

(* C14: every progress record passed to onProgress with total > 0 has      *)
(* percentage = floor(loaded / total * 100).                               *)
C14_PercentageIsFloor ==
    \A p \in ProgressCalls :
       p.total > 0 => p.percentage = (p.loaded * 100) \div p.total

\* C15: the parts of the statement
C15_MonotoneWithinBounds ==
    /\ \A i \in 1..Len(xhr.calls) : \A j \in i..Len(xhr.calls) :
          /\ xhr.calls[i].loaded <= xhr.calls[j].loaded
          /\ xhr.calls[i].percentage <= xhr.calls[j].percentage
    /\ \A p \in ProgressCalls :
          /\ 0 <= p.loaded /\ p.loaded <= p.total
          /\ 0 <= p.percentage /\ p.percentage <= 100

C15_HundredOnlyOnSuccess ==
    (\E p \in ProgressCalls : p.percentage = 100) => xhr.stage # "rejected"

(* C15: within one transfer the percentages passed to onProgress never     *)
(* decrease and lie in 0..100, and a transfer that reported 100 does not   *)
(* end in a failure.                                                       *)
C15_ProgressMonotoneAndFinal ==
    C15_MonotoneWithinBounds /\ C15_HundredOnlyOnSuccess

\* C16: the parts of the statement
C16_Step ==
    /\ (xhr.stage = "sent" /\ xhr.elapsed >= 30000 /\ xhr' # xhr) =>
          /\ xhr'.stage = "rejected"
          /\ xhr'.reason = Some(TimeoutMsg)
          /\ xhr'.calls = xhr.calls
          /\ Status' = "error"
          /\ uploadStatus'.error = Some(TimeoutMsg)
          /\ lastOp'.cb = onUploadError(TimeoutMsg)
    /\ (xhr.stage = "sent" /\ xhr'.reason = Some(TimeoutMsg)) => xhr.elapsed >= 30000
    /\ (xhr.stage = "rejected" /\ xhr'.stage # "sent") =>
          /\ xhr'.calls = xhr.calls
          /\ uploadStatus' = uploadStatus

(* C16: once 30000 ms have passed since send() without a response, the     *)
(* request times out (and not before): uploadFileToS3 rejects with the     *)
(* timeout error, the status becomes error with that message, and from     *)
(* then on the transfer makes no onProgress call and does not change       *)
(* uploadStatus.                                                           *)
C16_TimeoutEndsTransfer == [][C16_Step]_vars

\* a transfer that had reported progress has timed out
C16_Witness ==
    /\ xhr.stage = "rejected"
    /\ xhr.reason = Some(TimeoutMsg)
    /\ xhr.elapsed >= 30000
    /\ xhr.calls # << >>
    /\ Status = "error"
    /\ lastOp.handler = "xhr.timeout"

\* C17: the parts of the statement
C17_Step ==
    /\ \A status \in XhrStatuses : \A now \in Clock :
          TransferLoad(status, now) =>
             IF status \in 200..299
             THEN /\ xhr'.stage = "resolved"
                  /\ xhr'.fileKey # None /\ xhr'.reason = None
             ELSE /\ xhr'.stage = "rejected"
                  /\ xhr'.fileKey = None
                  /\ xhr'.reason = Some(UploadStatusMsg(status))
                  /\ xhr'.reason[1].num = status
    /\ TransferError =>
          /\ xhr'.stage = "rejected"
          /\ xhr'.fileKey = None
          /\ xhr'.reason = Some(NetworkErrorMsg)
    /\ (xhr.stage = "sent" /\ xhr'.stage = "resolved") => lastOp'.handler = "xhr.load"
    /\ xhr'.settled = IF xhr'.stage \in {"resolved", "rejected"} THEN 1 ELSE 0
    /\ xhr'.stage = "resolved" <=> xhr'.fileKey # None
    /\ xhr'.stage = "rejected" <=> xhr'.reason # None
    /\ (xhr.stage \in {"resolved", "rejected"} /\ xhr'.stage # "sent") => xhr' = xhr

\* a request that was sent is settled in the end
C17_EventuallySettles ==
    (xhr.stage = "sent") ~> (xhr.stage \in {"resolved", "rejected"})

PathSegments(url) ==
    LET parts == split(split(url, "?")[1], "/")
    IN  SubSeq(parts, 4, Len(parts))

\* the last segment of the path, "" when there is none
PathSegmentBeforeQuery(url) ==
    IF PathSegments(url) = << >> THEN << >> ELSE pop(PathSegments(url))

C18_ExpectedKey(url, file, now) ==
    IF PathSegmentBeforeQuery(url) # << >>
    THEN PathSegmentBeforeQuery(url)
    ELSE KeyPrefix \o now \o <<"-">> \o file.name

(* C18: the fileKey a successful transfer resolves with is the segment of  *)
(* the URL's path that precedes the query string, and                      *)
(* input_kml_files/{timestamp}-{fileName} only when there is no such       *)
(* segment; the upload-proxy route derives the key in the same way.        *)
C18_FileKeyIsPathSegment ==
    /\ xhr.stage = "resolved" =>
          \E now \in Clock :
             /\ xhr.fileKey = Some(C18_ExpectedKey(xhr.presignedUrl, xhr.file[1], now))
             /\ xhr.fileKey = Some(uploadProxyFileKey(xhr.presignedUrl, xhr.file[1], now))

\* C19: the parts of the statement
\* the records of the list that carry a tracking id
RecordsOf(results, id) == SelectSeq(results, LAMBDA r : r.id = id)

\* poller i has terminated: its interval is cleared
Terminated(i) == ~pollers[i].interval

C19_Step ==
    \A i \in 1..Len(pollers) :
       /\ pollers'[i].fired <= PollBudget \div PollInterval
       /\ ( /\ RecordsOf(analysisResults', pollers[i].id)
                  # RecordsOf(analysisResults, pollers[i].id)
            /\ \E r \in {analysisResults'[k] : k \in 1..Len(analysisResults')} :
                  r.id = pollers[i].id /\ r.status \in {"completed", "error"} )
          => ~pollers'[i].interval
       /\ Terminated(i) =>
             /\ pollers'[i].interval = pollers[i].interval
             /\ pollers'[i].fired = pollers[i].fired
             /\ RecordsOf(analysisResults', pollers[i].id)
                   = RecordsOf(analysisResults, pollers[i].id)

(* C19: the poller of a tracking id makes at most 30000 / 2000 ticks; a    *)
(* tick that yields a terminal status stops it, and so does the 30000 ms   *)
(* timeout; once it has stopped no tick starts, and the record of that id  *)
(* is not written again (so at most one terminal status is ever written).  *)
C19_PollerStopsForGood == [][C19_Step]_vars

(* C20: once the demo page has unmounted, no timer of a poller fires and   *)
(* no state setter of the page is called.                                  *)
C20_NoPollingAfterUnmount ==
    [][~mounted => UNCHANGED <<pollers, analysisResults, isProcessing>>]_vars

\* C21: the parts of the statement
\* the record that was at position k is at position k + (records added)
C21_Kept(k) == analysisResults'[k + Len(analysisResults') - Len(analysisResults)]

C21_Step ==
    /\ \A upload \in CompletedUploads :
          HandleUploadComplete(upload.fileKey, upload.analysisId) =>
             /\ Len(analysisResults') = Len(analysisResults) + 1
             /\ analysisResults'[1].id = upload.analysisId
             /\ analysisResults'[1].fileKey = upload.fileKey
             /\ analysisResults'[1].status = "processing"
             /\ analysisResults'[1].progress = 0
             /\ analysisResults'[1].results = None
             /\ Len(RecordsOf(analysisResults', upload.analysisId)) = 1
    /\ Len(analysisResults') >= Len(analysisResults)
    /\ Len(analysisResults') > Len(analysisResults) =>
          \E upload \in CompletedUploads :
             HandleUploadComplete(upload.fileKey, upload.analysisId)
    /\ \A k \in 1..Len(analysisResults) :
          /\ C21_Kept(k).id = analysisResults[k].id
          /\ C21_Kept(k).fileKey = analysisResults[k].fileKey
          /\ C21_Kept(k) # analysisResults[k] =>
                /\ analysisResults[k].status \notin {"completed", "error"}
                /\ \E i \in 1..Len(pollers) : \E mock \in MockStatuses :
                      /\ pollers[i].id = analysisResults[k].id
                      /\ MockStatusResolves(i, mock)

(* C21: a call of handleUploadComplete puts exactly one new record, with   *)
(* status processing and progress 0, at the head of the list; no record is *)
(* ever removed; a record changes only in a tick of the poller started for *)
(* its own analysis id, and a record whose status is completed (or error)  *)
(* never changes again.                                                    *)
C21_RecordsOwnedByTheirPoller == [][C21_Step]_vars

\* two analyses: the older one is completed, the newer one has been updated
\* by a tick of its own poller since
C21_Witness ==
    /\ Len(analysisResults) = 2
    /\ analysisResults[2].status = "completed"
    /\ analysisResults[1].status = "processing"
    /\ analysisResults[1].progress = 99
    /\ pollers[1].fired = 1
    /\ pollers[2].fired = 2

(* C22: every response of POST /api/presigned-url and of                   *)
(* POST /api/upload-proxy, whatever its status, and the responses of their *)
(* OPTIONS handlers, carry Access-Control-Allow-Origin: *,                 *)
(* Access-Control-Allow-Methods: POST, OPTIONS and                         *)
(* Access-Control-Allow-Headers: Content-Type.                             *)
C22_EveryResponseCarriesCors ==
    /\ presignedUrlOPTIONS.cors
    /\ uploadProxyOPTIONS.cors
    /\ req.answer # None => req.answer[1].cors
    /\ relay # None => relay[1].response.cors

\* C23: the parts of the statement
\* the relay answered a POST
RelayPosted == relay # None /\ relay[1].method = "POST"
\* the PUT was made and returned a 2xx status
PutSucceeded == relay[1].put # None /\ relay[1].put[1].net /\ relay[1].put[1].ok

C23_SuccessShape ==
    RelayPosted =>
       LET r == relay[1].response IN
       /\ r.status = 200 <=> PutSucceeded
       /\ r.status = 200 =>
             /\ r.success
             /\ r.fileKey # None
             /\ r.message # None
             /\ r.error = None
       /\ r.status # 200 =>
             /\ ~r.success
             /\ r.error # None
             /\ r.fileKey = None

(* C23, as stated: POST /api/upload-proxy answers 200 with {success: true, *)
(* fileKey, message} exactly when its PUT returned a 2xx status, and every *)
(* other response is {error} with status 500, a request without the file  *)
(* or the presignedUrl field included.                                     *)
C23_EveryFailureIs500 ==
    /\ C23_SuccessShape
    /\ RelayPosted /\ relay[1].response.status # 200 =>
          relay[1].response.status = 500

(* C23, amended: POST /api/upload-proxy answers 200 with {success: true,   *)
(* fileKey, message} exactly when its PUT returned a 2xx status; a request *)
(* without the file or the presignedUrl field is answered {error} with     *)
(* status 400 and no PUT is made; every other failure (the PUT failed or   *)
(* returned a non-2xx status) is answered {error} with status 500.         *)
C23_FailureIs400Or500 ==
    /\ C23_SuccessShape
    /\ RelayPosted /\ relay[1].response.status # 200 =>
          /\ ~FormComplete(relay[1].form[1]) =>
                /\ relay[1].response.status = 400
                /\ relay[1].response.error = Some(FormFieldsRequiredMsg)
                /\ relay[1].put = None
          /\ FormComplete(relay[1].form[1]) =>
                /\ relay[1].response.status = 500
                /\ relay[1].response.error = Some(RelayFailedMsg)

\* a request without the file field was answered 400
C23_Witness ==
    /\ RelayPosted
    /\ relay[1].form[1].file = None
    /\ relay[1].put = None
    /\ relay[1].response.status = 400

\* C24: the parts of the statement
\* a value `x || 3600`: x when it is supplied (and not 0), else 3600
C24_Or3600(expiresIn) ==
    IF expiresIn \in {None, Some(0)} THEN Some(3600) ELSE expiresIn

\* a fields mapping with the two metadata entries
C24_Synthesized(fields) ==
    /\ fields # None
    /\ {"x-amz-meta-original-name", "x-amz-meta-upload-timestamp"}
          \subseteq DOMAIN fields[1]

\* a 200 body with every member present
C24_Populated(answer) ==
    /\ answer.presignedUrl \notin {None, Some(<< >>)}
    /\ answer.fileKey \notin {None, Some(<< >>)}
    /\ answer.expiresIn \notin {None, Some(0)}
    /\ answer.fields # None

\* expiresIn and fields of a 200 body follow the Lambda function's response
C24_FromUpstream(answer, upstream) ==
    /\ answer.expiresIn = C24_Or3600(upstream.expiresIn)
    /\ IF upstream.fields # None
       THEN answer.fields = upstream.fields
       ELSE C24_Synthesized(answer.fields)

\* the value requestPresignedUrl returns follows the response it got
C24_CallStep ==
    \A now \in Clock :
       (PresignAnswered(now) /\ req'.stage = "returned") =>
          LET answer == req.answer[1]
              result == req'.result[1] IN
          /\ result.presignedUrl # << >>
          /\ result.fileKey # << >>
          /\ Some(result.expiresIn) = C24_Or3600(answer.expiresIn)
          /\ IF answer.fields # None
             THEN result.fields = answer.fields[1]
             ELSE C24_Synthesized(Some(result.fields))

C24_OriginalStep ==
    /\ \A now \in Clock :
         \A upstream \in LambdaResponses(presignRequestBody(req.fileName).fileName) :
            (PresignedUrlPOST(upstream, now) /\ req'.answer[1].status = 200) =>
               /\ C24_Populated(req'.answer[1])
               /\ C24_FromUpstream(req'.answer[1], upstream)
    /\ C24_CallStep

(* C24, as stated: every value requestPresignedUrl returns, and every 200  *)
(* body of POST /api/presigned-url, has all four members; its expiresIn is *)
(* the upstream value, or 3600 when the upstream supplies none, and its    *)
(* fields is the upstream value or, when the upstream supplies none, a     *)
(* mapping with the original-name and upload-timestamp entries.            *)
C24_DefaultsOnlyWhenNotSupplied == [][C24_OriginalStep]_vars

C24_Step ==
    /\ \A now \in Clock :
         \A upstream \in LambdaResponses(presignRequestBody(req.fileName).fileName) :
            (PresignedUrlPOST(upstream, now) /\ req'.answer[1].status = 200) =>
               /\ C24_Populated(req'.answer[1])
               /\ IF upstream.uploadUrl \notin {None, Some(<< >>)}
                  THEN C24_FromUpstream(req'.answer[1], upstream)
                  ELSE /\ req'.answer[1].expiresIn = Some(3600)
                       /\ C24_Synthesized(req'.answer[1].fields)
    /\ C24_CallStep

(* C24, amended: every value requestPresignedUrl returns, and every 200    *)
(* body of POST /api/presigned-url, has all four members.  When the        *)
(* upstream supplies the URL, expiresIn is the upstream value, or 3600     *)
(* when that is missing or 0, and fields is the upstream value or, when    *)
(* that is missing, a mapping with the original-name and upload-timestamp  *)
(* entries.  When the Lambda function supplies no uploadUrl, the 200 body  *)
(* has expiresIn 3600 and such a mapping whatever else it supplied.        *)
C24_FullyPopulated == [][C24_Step]_vars

\* the Lambda function supplied neither expiresIn nor fields: the call
\* returned 3600 and the two metadata entries
C24_Witness ==
    /\ req.stage = "returned"
    /\ req.answer[1].presignedUrl = Some(UrlHost \o KeyPrefix \o req.fileName \o UrlQuery)
    /\ req.result[1].expiresIn = 3600
    /\ DOMAIN req.result[1].fields
          = {"x-amz-meta-original-name", "x-amz-meta-upload-timestamp"}

\* C25: the parts of the statement
\* the 200 response with the mock credentials for a requested fileName
C25_MockAnswer(answer, fileName) ==
    /\ answer.status = 200
    /\ answer.error = None
    /\ answer.presignedUrl \notin {None, Some(<< >>)}
    /\ answer.fileKey = Some(fileName)
    /\ answer.expiresIn = Some(3600)

\* a 200 response of the route has a presignedUrl, and the call returns
C25_NoMissingUrl ==
    (req'.answer # None /\ req'.answer[1].status = 200) =>
       /\ req'.answer[1].presignedUrl \notin {None, Some(<< >>)}
       /\ req'.thrown # Some(MissingUrlMsg)
       /\ req'.stage \in {"answered", "returned"}

C25_OriginalStep ==
    /\ \A now \in Clock :
         \A upstream \in LambdaResponses(presignRequestBody(req.fileName).fileName) :
            ( /\ PresignedUrlPOST(upstream, now)
              /\ upstream.net /\ upstream.ok
              /\ upstream.uploadUrl \in {None, Some(<< >>)} ) =>
               C25_MockAnswer(req'.answer[1], presignRequestBody(req.fileName).fileName)
    /\ C25_NoMissingUrl

(* C25, as stated: whenever the Lambda function answers 2xx without        *)
(* uploadUrl, POST /api/presigned-url answers 200, with no error, a        *)
(* non-empty presignedUrl, the requested fileName as fileKey and expiresIn *)
(* 3600; so every 200 response of the route has a non-empty presignedUrl,  *)
(* and requestPresignedUrl never throws its missing-presignedUrl error on  *)
(* a 200 response of the route.                                            *)
C25_FallbackForEvery2xx == [][C25_OriginalStep]_vars

C25_Step ==
    /\ \A now \in Clock :
         \A upstream \in LambdaResponses(presignRequestBody(req.fileName).fileName) :
            ( /\ PresignedUrlPOST(upstream, now)
              /\ upstream.net /\ upstream.ok
              /\ upstream.uploadUrl \in {None, Some(<< >>)} ) =>
               IF upstream.json
               THEN C25_MockAnswer(req'.answer[1],
                                   presignRequestBody(req.fileName).fileName)
               ELSE req'.answer[1] = RouteError(500, InternalErrorMsg)
    /\ C25_NoMissingUrl

(* C25, amended: when the Lambda function answers 2xx with a JSON object   *)
(* that has no uploadUrl, POST /api/presigned-url answers 200, with no     *)
(* error, a non-empty presignedUrl, the requested fileName as fileKey and  *)
(* expiresIn 3600; a 2xx answer whose body cannot be read as a JSON object *)
(* is answered 500 {error}.  Every 200 response of the route has a         *)
(* non-empty presignedUrl, and requestPresignedUrl never throws its        *)
(* missing-presignedUrl error on a 200 response of the route.              *)
C25_FallbackHidesMissingUrl == [][C25_Step]_vars

\* the Lambda function sent no uploadUrl and the call returned the mock URL
C25_Witness ==
    /\ req.stage = "returned"
    /\ req.result[1].presignedUrl
          = MockUrlHost \o KeyPrefix \o req.fileName \o MockUrlQuery
    /\ req.result[1].fileKey = KeyPrefix \o req.fileName
    /\ req.result[1].expiresIn = 3600

\* C26: the parts of the statement
\* clearFile has run while uploads were in flight and no file has been
\* selected since: every run still in flight is an abandoned one
C26_Abandoned ==
    /\ selectedFile = None
    /\ uploadStatus = IdleStatus
    /\ attempts # EmptyBag

(* C26: after clearFile during an upload, and until the user selects a     *)
(* file again, no continuation of the abandoned handleUpload run changes   *)
(* anything: the status stays idle with zeroed progress and no selected    *)
(* file, and neither onUploadComplete nor onUploadError is called.         *)
C26_AbandonedRunHasNoEffect ==
    [][(C26_Abandoned /\ lastOp'.handler \notin UserHandlers) =>
          /\ uploadStatus' = IdleStatus
          /\ selectedFile' = None
          /\ lastOp'.cb.kind = "none"]_vars

\* C27: the parts of the statement
\* a step of the run itself, other than a progress event
C27_RunStep(run) ==
    \/ PresignRejected(run)
    \/ \E now \in Clock :
          \E resp \in PresignResponses(presignRequestBody(run.file.name)) :
             PresignSettled(run, resp, now)
    \/ \E status \in XhrStatuses : \E now \in Clock : XhrLoad(run, status, now)
    \/ XhrError(run)
    \/ XhrTimeout(run)
    \/ \E now \in Clock : \E rnd \in RandomSuffixes : ProcessResolved(run, now, rnd)

\* the awaits of handleUpload, in order
C27_StageRank(stage) ==
    CASE stage = "rejected" -> 3
      [] stage = "credentials" -> 1
      [] stage = "transfer" -> 2
      [] stage = "processing" -> 3

\* the callback of the step is one of the two terminal callbacks of
\* handleUpload (handleFileSelect calls onUploadError too, for a file that
\* fails validation)
C27_TerminalCallback ==
    /\ lastOp'.cb.kind \in {"complete", "error"}
    /\ lastOp'.handler \notin SelectHandlers

\* a run in flight is never waiting for something that cannot happen: when
\* the stage it awaits settles, it moves on
C27_CanMoveOn ==
    \A run \in Running :
       IF MicrotaskPending
       THEN \E other \in Running : ENABLED PresignRejected(other)
       ELSE ENABLED C27_RunStep(run)

C27_Step ==
    \* a call with a selected file starts one run, and calls nothing yet
    /\ (lastOp'.handler = "handleUpload" /\ selectedFile # None) =>
          /\ BagCardinality(attempts') = BagCardinality(attempts) + 1
          /\ lastOp'.cb.kind = "none"
    \* every other step that touches a run takes one run to a later await
    \* (or records a progress event of its transfer) and calls nothing, or
    \* ends one run with exactly one of the two callbacks
    /\ (attempts' # attempts /\ lastOp'.handler # "handleUpload") =>
          \E run \in Running :
             \/ /\ attempts' = Remove(run)
                /\ C27_TerminalCallback
             \/ /\ \E later \in BagToSet(attempts') :
                      /\ attempts' = Replace(run, later)
                      /\ later.file = run.file
                      /\ IF lastOp'.handler = "xhr.progress"
                         THEN later.stage = run.stage
                         ELSE C27_StageRank(later.stage) > C27_StageRank(run.stage)
                /\ lastOp'.cb.kind = "none"
    \* a terminal callback is the end of exactly one run
    /\ C27_TerminalCallback =>
          BagCardinality(attempts') = BagCardinality(attempts) - 1
    \* a call without a selected file
    /\ HandleUploadWithoutFile =>
          /\ UNCHANGED <<uploadStatus, selectedFile, attempts>>
          /\ lastOp'.cb.kind = "none"

(* C27: every call of handleUpload with a selected file starts one run;    *)
(* a run always has a next step once the stage it awaits settles, each     *)
(* step takes it to a later stage or ends it, and it ends with exactly one *)
(* call of either onUploadComplete or onUploadError, which no step makes   *)
(* at any other moment; a call of handleUpload without a selected file     *)
(* changes no state, starts no request and calls no callback.              *)
C27_OneTerminalCallbackPerRun == []C27_CanMoveOn /\ [][C27_Step]_vars

\* a run has ended with onUploadComplete, and none is left in flight
C27_Witness ==
    /\ lastOp.handler = "processKmlFile"
    /\ lastOp.cb.kind = "complete"
    /\ lastOp.from = "uploading"
    /\ attempts = EmptyBag

\* C28: the parts of the statement
\* the run's upload has succeeded with `fileKey`: the success state and the
\* callback of the step carry it
C28_SucceededWith(fileKey) ==
    /\ uploadStatus'.status = "success"
    /\ uploadStatus'.fileKey = Some(fileKey)
    /\ lastOp'.cb.fileKey = Some(fileKey)

(* C28: when an upload succeeds, the fileKey put into the success state    *)
(* and passed to onUploadComplete is the fileKey of the credentials that   *)
(* requestPresignedUrl returned for that file, and for credentials issued  *)
(* under the file's own name that is input_kml_files/<fileName>.           *)
C28_FileKeyIsTheIssuedKey ==
    [][\A run \in Running :
          (attempts' = Remove(run) /\ lastOp'.cb.kind = "complete") =>
             /\ C28_SucceededWith(run.presignedData[1].fileKey)
             /\ run.presignedData[1].fileKey = KeyPrefix \o run.file.name =>
                   C28_SucceededWith(KeyPrefix \o run.file.name)]_vars

\* C29: the parts of the statement
\* the ticks of the poller of an analysis id that have written its record
C29_TicksDone(id) ==
    LET i == CHOOSE i \in 1..Len(pollers) : pollers[i].id = id
    IN  pollers[i].fired - pollers[i].pending

(* C29: in every reachable state every analysis record has status          *)
(* processing or completed (never error); its status is completed exactly  *)
(* when its progress is 100, and exactly when it has results; a processing *)
(* record has progress 0 as long as no tick of its poller has written it,  *)
(* and a progress in 20..99 after one has.                                 *)
C29_RecordIsWellFormed ==
    \A k \in 1..Len(analysisResults) :
       LET r == analysisResults[k] IN
       /\ r.status \in {"processing", "completed"}
       /\ r.status = "completed" <=> r.progress = 100
       /\ r.status = "completed" <=> r.results # None
       /\ \E i \in 1..Len(pollers) : pollers[i].id = r.id
       /\ r.status = "processing" =>
             IF C29_TicksDone(r.id) = 0
             THEN r.progress = 0
             ELSE r.progress \in 20..99

\* an analysis completed on the third tick of its poller
C29_Witness ==
    /\ Len(analysisResults) = 1
    /\ analysisResults[1].status = "completed"
    /\ analysisResults[1].progress = 100
    /\ analysisResults[1].results = Some(MockResults)
    /\ pollers[1].fired = 3
    /\ pollers[1].pending = 0

\* C30: the parts of the statement
\* the "Upload File" button is not offered while the status is error
C30_NoUploadOffered == Status = "error" => ~ENABLED HandleUpload

C30_Step ==
    \* a selection that fails validation
    /\ lastOp'.handler \in SelectHandlers =>
          \A file \in Files :
             (SelectStep(file) /\ validateFile(file) # None) =>
                /\ selectedFile' = selectedFile
                /\ attempts' = attempts
                /\ uploadStatus' = ErrorStatus(validateFile(file)[1])
                /\ lastOp'.cb = onUploadError(validateFile(file)[1])
    \* no upload starts while the status is error
    /\ Status = "error" =>
          /\ lastOp'.handler # "handleUpload"
          /\ BagCardinality(attempts') <= BagCardinality(attempts)
    \* and the status leaves error for idle only by clearFile or by a
    \* selection that passes validation
    /\ (Status = "error" /\ Status' = "idle") =>
          \/ lastOp'.handler = "clearFile" /\ selectedFile' = None
          \/ /\ lastOp'.handler \in SelectHandlers
             /\ selectedFile' # None
             /\ validateFile(selectedFile'[1]) = None

(* C30: handleFileSelect with a file that fails validation sets the error  *)
(* state and calls onUploadError and nothing else: the file selected       *)
(* before stays selected.  While the status is error no upload can be      *)
(* started, and the status becomes idle again only by clearFile or by      *)
(* selecting a file that passes validation.                                *)
C30_InvalidSelectionKeepsFile == []C30_NoUploadOffered /\ [][C30_Step]_vars

\* a file that fails validation was dropped while a valid one was selected
C30_Witness ==
    /\ lastOp.handler = "handleDrop"
    /\ lastOp.from = "idle"
    /\ uploadStatus = ErrorStatus(UnsupportedTypeMsg)
    /\ selectedFile = Some(FKmz)
    /\ attempts = EmptyBag

====
